---------------------------- MODULE Spec2Model ----------------------------
(***************************************************************************)
(* A model of the Aanderaa reader: the tab-delimited frame pipeline        *)
(* (aanderaa_sensor_reader_custom.py: _extract_tab_frames,                 *)
(* _pick_best_data_frame, parse_tab_frame, _reader_loop) and the           *)
(* derived-quantity pass of the GUI (aanderaa_reader_gui.py:               *)
(* _drain_events and the pressure-baseline handlers).                      *)
(*                                                                         *)
(* Text is a sequence of one-character strings.  The control characters    *)
(* XON (0x11), XOFF (0x13) and SOH (0x01) are written as named tokens.     *)
(* Optional values (Python None) are sequences: <<>> is None, <<v>> is v.  *)
(* Floats are fixed-point integers in thousandths (see Scale).             *)
(***************************************************************************)
EXTENDS Integers, Sequences, FiniteSets, TLC

(***************************************************************************)
(* Characters                                                              *)
(***************************************************************************)
TAB == "\t"
CR == "\r"
LF == "\n"
XON == "XON"
XOFF == "XOFF"
SOH == "SOH"

Digits == <<"0", "1", "2", "3", "4", "5", "6", "7", "8", "9">>

IsDigit(c) == \E i \in 1..10 : Digits[i] = c

DigitValue(c) == (CHOOSE i \in 1..10 : Digits[i] = c) - 1

LowerLetters == <<"a", "b", "c", "d", "e", "f", "g", "h", "i", "j", "k", "l", "m",
                  "n", "o", "p", "q", "r", "s", "t", "u", "v", "w", "x", "y", "z">>

UpperLetters == <<"A", "B", "C", "D", "E", "F", "G", "H", "I", "J", "K", "L", "M",
                  "N", "O", "P", "Q", "R", "S", "T", "U", "V", "W", "X", "Y", "Z">>

\* str.upper() on one character
UpperChar(c) ==
    IF \E i \in 1..26 : LowerLetters[i] = c
    THEN UpperLetters[CHOOSE i \in 1..26 : LowerLetters[i] = c]
    ELSE c

\* str.upper()
Upper(s) == [i \in 1..Len(s) |-> UpperChar(s[i])]

\* The characters _CONTROL_CHARS_RE removes: \x00-\x08, \x0b, \x0c, \x0e-\x1f
\* (of these the model's alphabet holds SOH, XON and XOFF).
ControlChars == {SOH, XON, XOFF}

\* The characters str.strip() removes (ASCII whitespace of the alphabet).
WhitespaceChars == {" ", TAB, CR, LF}

\* The characters the reader loop treats as noise: "%;!*\r\n\t \x11\x13"
NoiseChars == {"%", ";", "!", "*", CR, LF, TAB, " ", XON, XOFF}

(***************************************************************************)
(* String helpers                                                          *)
(***************************************************************************)
RECURSIVE FilterOut(_, _)
\* s with every character of set cs removed
FilterOut(s, cs) ==
    IF s = <<>> THEN <<>>
    ELSE IF Head(s) \in cs THEN FilterOut(Tail(s), cs)
    ELSE <<Head(s)>> \o FilterOut(Tail(s), cs)

RECURSIVE JoinChunks(_)
\* The chunks of a text (read from a channel, written to a file), one after
\* the other.
JoinChunks(chunks) ==
    IF chunks = <<>> THEN <<>> ELSE Head(chunks) \o JoinChunks(Tail(chunks))

\* str.startswith
StartsWith(s, prefix) ==
    /\ Len(s) >= Len(prefix)
    /\ SubSeq(s, 1, Len(prefix)) = prefix

RECURSIVE SplitOn(_, _)
\* str.split(sep) for a one-character separator out of the set seps:
\* k separators give k + 1 segments, empty ones included.
SplitOn(s, seps) ==
    IF \A i \in 1..Len(s) : s[i] \notin seps THEN <<s>>
    ELSE LET k == CHOOSE i \in 1..Len(s) :
                      /\ s[i] \in seps
                      /\ \A j \in 1..(i - 1) : s[j] \notin seps
         IN <<SubSeq(s, 1, k - 1)>> \o SplitOn(SubSeq(s, k + 1, Len(s)), seps)

RECURSIVE LStrip(_)
LStrip(s) ==
    IF s # <<>> /\ Head(s) \in WhitespaceChars THEN LStrip(Tail(s)) ELSE s

RECURSIVE RStrip(_)
RStrip(s) ==
    IF s # <<>> /\ s[Len(s)] \in WhitespaceChars
    THEN RStrip(SubSeq(s, 1, Len(s) - 1))
    ELSE s

\* str.strip()
Strip(s) == RStrip(LStrip(s))

RECURSIVE SelectNonEmpty(_)
SelectNonEmpty(ss) ==
    IF ss = <<>> THEN <<>>
    ELSE IF Head(ss) = <<>> THEN SelectNonEmpty(Tail(ss))
    ELSE <<Head(ss)>> \o SelectNonEmpty(Tail(ss))

(***************************************************************************)
(* aanderaa_sensor_reader_custom.py: module functions                      *)
(***************************************************************************)
_strip_control_chars(s) == FilterOut(s, ControlChars)

\* Mutant of _infer_sensor_type: the product must be one of the eight
\* numbers, not merely start with one.
InferExact(product) ==
    IF product \in {<<"4", "1", "1", "7">>, <<"5", "2", "1", "7">>, <<"5", "2", "1", "8">>}
    THEN "pressure"
    ELSE IF product \in {<<"4", "3", "3", "0">>, <<"4", "8", "3", "5">>, <<"4", "8", "3", "1">>}
    THEN "oxygen"
    ELSE IF product \in {<<"5", "8", "1", "9">>, <<"5", "9", "9", "0">>}
    THEN "conductivity"
    ELSE "unknown"

\* _infer_sensor_type(product); `product or ""` makes a missing product the
\* empty text, which is <<>> here as well.
_infer_sensor_type(product) ==
    LET p == Upper(product)
    IN IF \/ StartsWith(p, <<"4", "1", "1", "7">>)
          \/ StartsWith(p, <<"5", "2", "1", "7">>)
          \/ StartsWith(p, <<"5", "2", "1", "8">>)
       THEN "pressure"
       ELSE IF \/ StartsWith(p, <<"4", "3", "3", "0">>)
               \/ StartsWith(p, <<"4", "8", "3", "5">>)
               \/ StartsWith(p, <<"4", "8", "3", "1">>)
       THEN "oxygen"
       ELSE IF \/ StartsWith(p, <<"5", "8", "1", "9">>)
               \/ StartsWith(p, <<"5", "9", "9", "0">>)
       THEN "conductivity"
       ELSE "unknown"

(***************************************************************************)
(* AanderaaSensorCustom._extract_tab_frames                                *)
(***************************************************************************)
\* fields = [f.strip() for f in line.split("\t") if f.strip() != ""]
LineFields(line) ==
    LET parts == SplitOn(line, {TAB})
    IN SelectNonEmpty([i \in 1..Len(parts) |-> Strip(parts[i])])

RECURSIVE FramesOfLines(_)
FramesOfLines(lines) ==
    IF lines = <<>> THEN <<>>
    ELSE LET line == Head(lines)
             rest == FramesOfLines(Tail(lines))
         IN IF \A i \in 1..Len(line) : line[i] # TAB THEN rest
            ELSE IF LineFields(line) = <<>> THEN rest
            ELSE <<LineFields(line)>> \o rest

_extract_tab_frames(raw) ==
    IF raw = <<>> THEN <<>>
    ELSE LET text == FilterOut(_strip_control_chars(raw), {"!"})
         IN FramesOfLines(SplitOn(text, {CR, LF}))

(***************************************************************************)
(* AanderaaSensorCustom._pick_best_data_frame                              *)
(***************************************************************************)
ERRORWord == <<"E", "R", "R", "O", "R">>

\* fields[0] == "*" and len(fields) >= 2 and fields[1].upper() == "ERROR"
IsErrorFrame(fields) ==
    /\ Len(fields) >= 2
    /\ fields[1] = <<"*">>
    /\ Upper(fields[2]) = ERRORWord

\* re.match(r"^\d{4}.*", product)
MatchesProduct(product) ==
    /\ Len(product) >= 4
    /\ \A i \in 1..4 : IsDigit(product[i])

\* re.match(r"^\d+", serial)
MatchesSerial(serial) == Len(serial) >= 1 /\ IsDigit(serial[1])

\* The loop body's test: the frame replaces `best`.
FrameAccepted(fields) ==
    /\ Len(fields) >= 2
    /\ ~IsErrorFrame(fields)
    /\ MatchesProduct(fields[1])
    /\ (MatchesSerial(fields[2]) \/ Len(fields) >= 3)

RECURSIVE PickFrom(_, _)
PickFrom(frames, best) ==
    IF frames = <<>> THEN best
    ELSE PickFrom(Tail(frames), IF FrameAccepted(Head(frames)) THEN Head(frames) ELSE best)

RECURSIVE PickFirstFrom(_)
\* Mutant of _pick_best_data_frame: the first accepted frame wins.
PickFirstFrom(frames) ==
    IF frames = <<>> THEN <<>>
    ELSE IF FrameAccepted(Head(frames)) THEN Head(frames)
    ELSE PickFirstFrom(Tail(frames))

RECURSIVE PickUnchecked(_)
\* Mutant of _pick_best_data_frame: the last frame with two fields wins,
\* whatever its shape.
PickUnchecked(frames) ==
    IF frames = <<>> THEN <<>>
    ELSE IF Len(frames[Len(frames)]) >= 2 THEN frames[Len(frames)]
    ELSE PickUnchecked(SubSeq(frames, 1, Len(frames) - 1))

\* Returns <<>> for None (an accepted frame has at least 2 fields).
_pick_best_data_frame(frames) == PickFrom(frames, <<>>)

(***************************************************************************)
(* Measurement dicts: functions from key to text                           *)
(***************************************************************************)
EmptyDict == [k \in {} |-> <<>>]

\* d[k] = v
DictSet(d, k, v) == [x \in (DOMAIN d) \cup {k} |-> IF x = k THEN v ELSE d[x]]

\* d.get(k): <<>> for None, <<text>> otherwise
DictGet(d, k) == IF k \in DOMAIN d THEN <<d[k]>> ELSE <<>>

\* The keys f"Value{i}"
ValueKeyNames == <<"Value1", "Value2", "Value3", "Value4", "Value5", "Value6",
                   "Value7", "Value8">>

ValueKey(i) == ValueKeyNames[i]

(***************************************************************************)
(* AanderaaSensorCustom: the sensor handle                                 *)
(***************************************************************************)
\* __init__: serial_port is "none" (None), "open" or "closed"
NewSensor(com_port, name, sensor_type) ==
    [com_port |-> com_port,
     name |-> name,
     sensor_type |-> sensor_type,
     serial_port |-> "none",
     is_connected |-> FALSE,
     product_number |-> <<>>,
     serial_number |-> <<>>,
     protocol_mode |-> "unknown",
     last_measurement |-> EmptyDict,
     last_measurement_time |-> <<>>]

\* f"Sensor {product} SN {serial_no}"
SensorName(product, serial_no) ==
    <<"S", "e", "n", "s", "o", "r", " ">> \o product \o <<" ", "S", "N", " ">> \o serial_no

\* Mutant of RawValueColumns: the columns are numbered from the serial number on.
RawValueColumnsShifted(product, serial_no, values) ==
    [k \in {"ProductNumber", "SerialNumber"} \cup {ValueKey(i) : i \in 1..Len(values)} |->
        IF k = "ProductNumber" THEN product
        ELSE IF k = "SerialNumber" THEN serial_no
        ELSE LET i == CHOOSE j \in 1..Len(values) : ValueKey(j) = k
             IN IF i = 1 THEN serial_no ELSE values[i - 1]]

\* for i, v in enumerate(values, start=1): measurements[f"Value{i}"] = v
RawValueColumns(product, serial_no, values) ==
    [k \in {"ProductNumber", "SerialNumber"} \cup {ValueKey(i) : i \in 1..Len(values)} |->
        IF k = "ProductNumber" THEN product
        ELSE IF k = "SerialNumber" THEN serial_no
        ELSE values[CHOOSE i \in 1..Len(values) : ValueKey(i) = k]]

\* Mutant of TypeOverlay: the three-value conductivity layout does not
\* reassign Temperature.
TypeOverlayFirstLayout(m, sensor_type, nvalues) ==
    IF sensor_type = "oxygen" /\ nvalues >= 3
    THEN DictSet(DictSet(DictSet(m, "O2Concentration", m["Value1"]),
                         "O2Saturation", m["Value2"]),
                 "Temperature", m["Value3"])
    ELSE IF sensor_type = "conductivity" /\ nvalues >= 3
    THEN DictSet(DictSet(DictSet(m, "Conductivity", m["Value1"]),
                         "Temperature", m["Value2"]),
                 "Salinity", m["Value2"])
    ELSE IF sensor_type = "conductivity" /\ nvalues >= 2
    THEN DictSet(DictSet(m, "Conductivity", m["Value1"]), "Temperature", m["Value2"])
    ELSE IF sensor_type = "pressure" /\ nvalues >= 2
    THEN DictSet(DictSet(m, "Pressure", m["Value1"]), "Temperature", m["Value2"])
    ELSE m

\* The type-specific named fields added on top of the raw columns.
TypeOverlay(m, sensor_type, nvalues) ==
    IF sensor_type = "oxygen" /\ nvalues >= 3
    THEN DictSet(DictSet(DictSet(m, "O2Concentration", m["Value1"]),
                         "O2Saturation", m["Value2"]),
                 "Temperature", m["Value3"])
    ELSE IF sensor_type = "conductivity"
    THEN LET m2 == IF nvalues >= 2
                   THEN DictSet(DictSet(m, "Conductivity", m["Value1"]),
                                "Temperature", m["Value2"])
                   ELSE m
         IN IF nvalues >= 3
            THEN DictSet(DictSet(m2, "Salinity", m2["Value2"]), "Temperature", m2["Value3"])
            ELSE m2
    ELSE IF sensor_type = "pressure" /\ nvalues >= 2
    THEN DictSet(DictSet(m, "Pressure", m["Value1"]), "Temperature", m["Value2"])
    ELSE m

\* Mutant of InferredOverrides: the inferred type only fills in for a handle
\* configured without a type.
InferredFillsBlank(sensor_type, inferred) ==
    IF inferred # "unknown" /\ sensor_type \in {"", "unknown"}
    THEN inferred
    ELSE sensor_type

\* if inferred != "unknown" and self.sensor_type != inferred:
\*     self.sensor_type = inferred
InferredOverrides(sensor_type, inferred) ==
    IF inferred # "unknown" /\ sensor_type # inferred
    THEN inferred
    ELSE sensor_type

\* Mutant of ShortFrameResult: the handle is marked before the length test.
ShortFrameMarked(self, t) ==
    [sensor |-> [self EXCEPT !.protocol_mode = "tab", !.last_measurement = EmptyDict,
                             !.last_measurement_time = <<t>>],
     measurements |-> EmptyDict]

\* if len(data_frame) < 2: return {} -- the first statement of the method.
ShortFrameResult(self, t) == [sensor |-> self, measurements |-> EmptyDict]

\* parse_tab_frame(self, data_frame) at time t: the handle afterwards and the
\* mapping returned.
parse_tab_frame(self, data_frame, t) ==
    IF Len(data_frame) < 2
    THEN ShortFrameResult(self, t)
    ELSE LET product == data_frame[1]
             serial_no == data_frame[2]
             values == SubSeq(data_frame, 3, Len(data_frame))
             inferred == _infer_sensor_type(product)
             sensor_type == InferredOverrides(self.sensor_type, inferred)
             measurements == TypeOverlay(RawValueColumns(product, serial_no, values),
                                         sensor_type, Len(values))
         IN [sensor |-> [self EXCEPT !.sensor_type = sensor_type,
                                     !.product_number = <<product>>,
                                     !.serial_number = <<serial_no>>,
                                     !.name = SensorName(product, serial_no),
                                     !.protocol_mode = "tab",
                                     !.last_measurement = measurements,
                                     !.last_measurement_time = <<t>>],
             measurements |-> measurements]

(***************************************************************************)
(* Inputs: the texts, frames and serial chunks the model draws from        *)
(***************************************************************************)
TxtStar == <<"*">>

TxtERROR == <<"E", "R", "R", "O", "R">>

TxtErrorLower == <<"e", "r", "r", "o", "r">>

TxtSyntaxError == <<"S", "Y", "N", "T", "A", "X", " ", "E", "R", "R", "O", "R">>

Txt4330 == <<"4", "3", "3", "0">>

Txt5819 == <<"5", "8", "1", "9">>

Txt4117B == <<"4", "1", "1", "7", "B">>

Txt9999 == <<"9", "9", "9", "9">>

Txt43 == <<"4", "3">>

Txt55 == <<"5", "5">>

Txt7 == <<"7">>

Txt1234 == <<"1", "2", "3", "4">>

TxtSN == <<"S", "N">>

Txt210_5 == <<"2", "1", "0", ".", "5">>

Txt98_2 == <<"9", "8", ".", "2">>

Txt18_3 == <<"1", "8", ".", "3">>

Txt40_0 == <<"4", "0", ".", "0">>

Txt29_5 == <<"2", "9", ".", "5">>

Txt20_0 == <<"2", "0", ".", "0">>

Txt101_3 == <<"1", "0", "1", ".", "3">>

Txt111_3 == <<"1", "1", "1", ".", "3">>

TxtUnknown == <<"U", "n", "k", "n", "o", "w", "n">>

\* The device error frame and data frames of the three sensor families.
ErrorFrame == <<TxtStar, TxtERROR, TxtSyntaxError>>

ErrorFrameLower == <<TxtStar, TxtErrorLower>>

OxygenFrame == <<Txt4330, Txt55, Txt210_5, Txt98_2, Txt18_3>>

OxygenFrame2 == <<Txt4330, Txt55, Txt210_5, Txt98_2>>

ConductivityFrame2 == <<Txt5819, Txt7, Txt40_0, Txt20_0>>

ConductivityFrame3 == <<Txt5819, Txt7, Txt40_0, Txt29_5, Txt20_0>>

PressureFrame == <<Txt4117B, Txt1234, Txt101_3, Txt20_0>>

PressureFrameDeep == <<Txt4117B, Txt1234, Txt111_3, Txt20_0>>

OneFieldFrame == <<Txt4330>>

IdOnlyFrame == <<Txt4330, Txt55>>

TextSerialFrame2 == <<Txt4330, TxtSN>>

TextSerialFrame3 == <<Txt4330, TxtSN, Txt18_3>>

UnknownProductFrame == <<Txt9999, Txt55, Txt18_3>>

ShortProductFrame == <<Txt43, Txt55, Txt18_3>>

CandidateFrames ==
    {ErrorFrame, ErrorFrameLower, OxygenFrame, OxygenFrame2, ConductivityFrame2,
     ConductivityFrame3, PressureFrame, OneFieldFrame, IdOnlyFrame, TextSerialFrame2,
     TextSerialFrame3, UnknownProductFrame, ShortProductFrame}

\* The batches of at most n candidate frames.
Batches(n) == UNION {[1..k -> CandidateFrames] : k \in 0..n}

\* The sensor_type values a configuration gives a handle.
ConfigTypes == {"", "unknown", "oxygen", "conductivity", "pressure"}

RECURSIVE WireLine(_)
\* A frame as the sensor sends it: its fields joined by tabs.
WireLine(fields) ==
    IF Len(fields) = 1 THEN fields[1]
    ELSE fields[1] \o <<TAB>> \o WireLine(Tail(fields))

CRLF == <<CR, LF>>

\* What one serial read may return in the reader-loop specification.
ReaderChunks ==
    {<<>>,
     WireLine(ErrorFrame) \o CRLF \o WireLine(OxygenFrame) \o CRLF,
     WireLine(ErrorFrame) \o CRLF,
     <<"0xFF", SOH>> \o WireLine(OxygenFrame) \o CRLF,
     WireLine(OxygenFrame),
     WireLine(<<Txt4330, Txt55, Txt210_5>>),
     <<TAB>> \o WireLine(<<Txt98_2, Txt18_3>>) \o CRLF,
     WireLine(OxygenFrame) \o CRLF \o WireLine(ConductivityFrame2) \o <<LF>>
         \o WireLine(PressureFrame) \o <<CR>> \o WireLine(<<Txt4330, Txt55>>),
     WireLine(OneFieldFrame) \o CRLF \o WireLine(TextSerialFrame2) \o CRLF,
     CRLF,
     <<"!", "*", XON, CR, LF, " ", ";", XOFF, "%">>,
     <<";", TAB, " ">>}

(***************************************************************************)
(* Bounds of the model                                                     *)
(***************************************************************************)
\* Frames in one batch given to _pick_best_data_frame.
MaxBatch == 2

\* Calls of parse_tab_frame in the decode pipeline.
MaxParses == 2

\* Iterations the reader loops begin in one run.
MaxReads == 2

\* The clock stops advancing here.
MaxNow == 9

\* The steps by which the clock advances.
TickSteps == {9}

\* The clock of the runs in which the sensor stays silent stops here; it
\* advances by steps that fall on and beside the thresholds of 8 s and 25 s.
MaxQuiet == 26

QuietSteps == {8, 9}

(***************************************************************************)
(* State                                                                   *)
(***************************************************************************)
VARIABLES
    sensors,        \* com port -> AanderaaSensorCustom handle
    reader,         \* com port -> the locals of that port's _reader_loop
    event_queue,    \* the shared queue of SensorEvent
    written,        \* com port -> what was written to the serial channel, and when
    stop_event,     \* threading.Event
    now,            \* time.time(), in seconds
    reads,          \* number of loop iterations begun so far (bounded by MaxReads)
    wire,           \* com port -> the chunks the serial reads returned, in order
    frames_in,      \* decode pipeline: the batch of candidate frames
    data_frame,     \* decode pipeline: what _pick_best_data_frame returned
    parsed_frame,   \* decode pipeline: the frame last given to parse_tab_frame
    decoded,        \* decode pipeline: what parse_tab_frame returned
    dpc,            \* decode pipeline: position
    tree,                           \* GUI: com port -> the row of the sensor table
    latest_salinity_psu,            \* GUI: self._latest_salinity_psu (Optional)
    latest_salinity_at,             \* GUI: self._latest_salinity_at (Optional)
    latest_pressure,                \* GUI: self._latest_pressure (Optional)
    latest_pressure_at,             \* GUI: self._latest_pressure_at (Optional)
    latest_pressure_kpa_by_port,    \* GUI: self._latest_pressure_kpa_by_port
    pressure_sensor_id_by_port,     \* GUI: self._pressure_sensor_id_by_port
    pressure_air_kpa_by_sensor,     \* GUI: self._pressure_air_kpa_by_sensor
    state_file,                     \* the persisted state: sensor id -> baseline
    delivered,      \* history: the events _drain_events has processed, in order
    drains,         \* history: number of drain passes that processed events
    drain_armed,    \* GUI: the timer self.after(300, self._drain_events) is pending
    files,          \* the state directory: file name -> None or <<its text>>
    save,           \* save_state: its position, payload and the chunks still to write
    _sensors,       \* GUI: self._sensors, the handles kept by the connect worker
    _threads,       \* GUI: self._threads, the reader threads it keeps track of
    queue_id,       \* identity of self._event_queue (number of queues created)
    gui_pc,         \* position of the GUI thread inside a stop or disconnect handler
    connect_log     \* history: the calls of connect(), what they read and returned

vars == <<sensors, reader, event_queue, written, stop_event, now, reads, wire,
          frames_in, data_frame, parsed_frame, decoded, dpc,
          tree, latest_salinity_psu, latest_salinity_at, latest_pressure,
          latest_pressure_at, latest_pressure_kpa_by_port, pressure_sensor_id_by_port,
          pressure_air_kpa_by_sensor, state_file, delivered, drains, drain_armed,
          files, save,
          _sensors, _threads, queue_id, gui_pc, connect_log>>

sessionVars == <<_sensors, _threads, queue_id, gui_pc, connect_log>>

guiVars == <<tree, latest_salinity_psu, latest_salinity_at, latest_pressure,
             latest_pressure_at, latest_pressure_kpa_by_port, pressure_sensor_id_by_port,
             pressure_air_kpa_by_sensor, state_file, delivered, drains, drain_armed,
             files, save>>

readerVars == <<sensors, reader, event_queue, written, stop_event, now, reads, wire>>

decodeVars == <<frames_in, data_frame, parsed_frame, decoded, dpc>>

(***************************************************************************)
(* _reader_loop                                                            *)
(***************************************************************************)
\* Thresholds of the liveness nudges, in seconds.
NudgeAfter == 8

TriggerAfter == 25

\* len(buffer) > 20 before a terminator-less buffer is tried as a frame
MinUnterminatedLen == 20

\* A byte outside ASCII, which chunk.decode("ascii", errors="ignore") drops.
NonAsciiBytes == {"0xFF"}

DecodeAscii(chunk) == FilterOut(chunk, NonAsciiBytes)

SensorEvent(timestamp, com_port, name, measurements, raw_line) ==
    [timestamp |-> timestamp, com_port |-> com_port, name |-> name,
     measurements |-> measurements, raw_line |-> raw_line]

\* The arguments and locals of _reader_loop(sensor, out_queue, stop_event)
\* entering its loop at time t.  sensor names the handle, out_queue the queue
\* object the thread was given.
ReaderLocals(sensor, out_queue, t) ==
    [pc |-> "test", sensor |-> sensor, out_queue |-> out_queue,
     buffer |-> <<>>, last_frame |-> t, last_nudge |-> t, last_do |-> t]

NotStarted == [pc |-> "idle", buffer |-> <<>>, last_frame |-> 0, last_nudge |-> 0, last_do |-> 0]

HasTerminator(buffer) == \E i \in 1..Len(buffer) : buffer[i] \in {CR, LF}

HasTab(buffer) == \E i \in 1..Len(buffer) : buffer[i] = TAB

\* Mutant of DropNoise: the buffer is never reset.
DropNoiseNever(buffer) == buffer

\* if buffer and all(c in "%;!*\r\n\t \x11\x13" for c in buffer):
\*     if "\t" not in buffer: buffer = ""
DropNoise(buffer) ==
    IF /\ buffer # <<>>
       /\ \A i \in 1..Len(buffer) : buffer[i] \in NoiseChars
       /\ ~HasTab(buffer)
    THEN <<>>
    ELSE buffer

RECURSIVE ProcessLines(_, _, _, _)
\* for line in lines[:-1]: ... out_queue.put(SensorEvent(...))
\* acc = [sensor, events, emitted]; gives acc after the lines.
ProcessLines(lines, acc, t, com_port) ==
    IF lines = <<>> THEN acc
    ELSE LET line == Head(lines)
             picked == _pick_best_data_frame(_extract_tab_frames(line))
             parsed == parse_tab_frame(acc.sensor, picked, t)
         IN IF Strip(line) = <<>> \/ picked = <<>>
            THEN ProcessLines(Tail(lines), acc, t, com_port)
            ELSE IF parsed.measurements = EmptyDict
            THEN ProcessLines(Tail(lines), [acc EXCEPT !.sensor = parsed.sensor], t, com_port)
            ELSE ProcessLines(Tail(lines),
                              [sensor |-> parsed.sensor,
                               events |-> Append(acc.events,
                                                 SensorEvent(t, com_port, parsed.sensor.name,
                                                             parsed.measurements, line)),
                               emitted |-> TRUE],
                              t, com_port)

\* Mutant of NormalPath: the complete lines are treated as one batch, of which
\* only the best frame is decoded (as get_measurement does).
NormalPathOneBatch(self, buffer, t) ==
    LET lines == SplitOn(buffer, {CR, LF})
        picked == _pick_best_data_frame(_extract_tab_frames(buffer))
        parsed == parse_tab_frame(self, picked, t)
    IN IF picked = <<>>
       THEN [sensor |-> self, events |-> <<>>, emitted |-> FALSE, buffer |-> lines[Len(lines)]]
       ELSE [sensor |-> parsed.sensor,
             events |-> <<SensorEvent(t, self.com_port, parsed.sensor.name,
                                      parsed.measurements, WireLine(picked))>>,
             emitted |-> TRUE, buffer |-> lines[Len(lines)]]

\* The normal path: lines = buffer.replace("\r", "\n").split("\n");
\* buffer = lines[-1]; then the loop over lines[:-1].
NormalPath(self, buffer, t) ==
    LET lines == SplitOn(buffer, {CR, LF})
        acc == ProcessLines(SubSeq(lines, 1, Len(lines) - 1),
                            [sensor |-> self, events |-> <<>>, emitted |-> FALSE],
                            t, self.com_port)
    IN [sensor |-> acc.sensor, events |-> acc.events, emitted |-> acc.emitted,
        buffer |-> lines[Len(lines)]]

\* The branch for a buffer without a line terminator.
UnterminatedPath(self, buffer, t) ==
    LET picked == _pick_best_data_frame(_extract_tab_frames(buffer))
        parsed == parse_tab_frame(self, picked, t)
    IN IF HasTab(buffer) /\ Len(buffer) > MinUnterminatedLen /\ picked # <<>>
       THEN IF parsed.measurements # EmptyDict
            THEN [sensor |-> parsed.sensor,
                  events |-> <<SensorEvent(t, self.com_port, parsed.sensor.name,
                                           parsed.measurements, buffer)>>,
                  emitted |-> TRUE, buffer |-> <<>>]
            ELSE [sensor |-> parsed.sensor, events |-> <<>>, emitted |-> FALSE,
                  buffer |-> buffer]
       ELSE [sensor |-> self, events |-> <<>>, emitted |-> FALSE, buffer |-> buffer]

\* Everything of one iteration after the noise step and the nudges.
FrameBuffer(self, buffer, t) ==
    IF ~HasTerminator(buffer)
    THEN UnterminatedPath(self, buffer, t)
    ELSE NormalPath(self, buffer, t)

\* Byte strings written to a channel at time t, as the channel records them.
Stamped(ws, t) == [i \in 1..Len(ws) |-> [at |-> t, data |-> ws[i]]]

\* Mutant of NudgeWrites: the time of the previous nudge and of the previous
\* trigger are not looked at.
NudgeWritesUnlimited(r, t) ==
    (IF t - r.last_frame > NudgeAfter THEN <<"\r\n">> ELSE <<>>)
    \o
    (IF t - r.last_frame > TriggerAfter THEN <<"Do\r\n", "DO\r\n">> ELSE <<>>)

\* What one iteration writes to the serial channel.
NudgeWrites(r, t) ==
    (IF t - r.last_frame > NudgeAfter /\ t - r.last_nudge > NudgeAfter
     THEN <<"\r\n">> ELSE <<>>)
    \o
    (IF t - r.last_frame > TriggerAfter /\ t - r.last_do > TriggerAfter
     THEN <<"Do\r\n", "DO\r\n">> ELSE <<>>)

\* The handle a reader thread was given, and the channel of that handle.
HandleOf(th) == reader[th].sensor

ChannelOf(th) == sensors[reader[th].sensor].com_port

\* Mutant of LoopCondition: the stop signal is not looked at.
LoopConditionAlways(stop) == TRUE

\* while not stop_event.is_set():
LoopCondition(stop) == ~stop

\* Mutant of ExceptionHandler: the exception leaves the loop.
ExceptionPropagates(r) == [r EXCEPT !.pc = "done"]

\* except Exception: time.sleep(0.05), and back to the loop test; the
\* locals are as they were when the exception was raised.
ExceptionHandler(r) == [r EXCEPT !.pc = "test"]

\* Mutant of ChannelAtReturn: the loop closes the channel it was given.
ChannelClosedAtReturn(s) ==
    [s EXCEPT !.serial_port = IF @ = "open" THEN "closed" ELSE @]

\* The handle where _reader_loop passes its entry test or returns: the
\* function calls neither close() nor open() on sensor.serial_port and
\* assigns nothing to the handle there.
ChannelAtReturn(s) == s

\* if not sensor.serial_port: return; otherwise the locals are set up.
ReaderEnter(th) ==
    /\ reader[th].pc = "enter"
    /\ reader' = [reader EXCEPT ![th] =
                      IF sensors[HandleOf(th)].serial_port = "none"
                      THEN [@ EXCEPT !.pc = "done"]
                      ELSE ReaderLocals(@.sensor, @.out_queue, now)]
    /\ sensors' = [sensors EXCEPT ![HandleOf(th)] = ChannelAtReturn(@)]
    /\ UNCHANGED <<event_queue, written, stop_event, now, reads, wire>>

\* The loop test finds the stop signal clear: an iteration begins.
ReaderTest(th) ==
    /\ reader[th].pc = "test"
    /\ LoopCondition(stop_event)
    /\ reads < MaxReads
    /\ reads' = reads + 1
    /\ reader' = [reader EXCEPT ![th].pc = "read"]
    /\ UNCHANGED <<sensors, event_queue, written, stop_event, now, wire>>

\* chunk = sensor.serial_port.read(...) returns (an open port only);
\* if chunk: buffer += chunk.decode("ascii", errors="ignore")
ReaderRead(th, chunk) ==
    /\ reader[th].pc = "read"
    /\ sensors[HandleOf(th)].serial_port = "open"
    /\ wire' = [wire EXCEPT ![ChannelOf(th)] = Append(@, chunk)]
    /\ reader' = [reader EXCEPT ![th].buffer = @ \o DecodeAscii(chunk),
                                ![th].pc = "process"]
    /\ UNCHANGED <<sensors, event_queue, written, stop_event, now, reads>>

\* The rest of the iteration: noise step, nudges, framing, events.  A write
\* that raises (wok false; always so on a port that is not open) is passed
\* over by the inner try, and last_nudge / last_do are set all the same.  An
\* event goes to the queue object the thread was given, which the consumer
\* reads only while it is still self._event_queue.
ReaderProcess(th, wok) ==
    /\ reader[th].pc = "process"
    /\ wok => sensors[HandleOf(th)].serial_port = "open"
    /\ LET r == reader[th]
           buffer == DropNoise(r.buffer)
           nudged == now - r.last_frame > NudgeAfter /\ now - r.last_nudge > NudgeAfter
           triggered == now - r.last_frame > TriggerAfter /\ now - r.last_do > TriggerAfter
           out == FrameBuffer(sensors[r.sensor], buffer, now)
       IN /\ written' = [written EXCEPT ![ChannelOf(th)] =
                             IF wok THEN @ \o Stamped(NudgeWrites(r, now), now) ELSE @]
          /\ sensors' = [sensors EXCEPT ![r.sensor] = out.sensor]
          /\ event_queue' = IF r.out_queue = queue_id
                            THEN event_queue \o out.events
                            ELSE event_queue
          /\ reader' = [reader EXCEPT
                            ![th].pc = "test",
                            ![th].buffer = out.buffer,
                            ![th].last_nudge = IF nudged THEN now ELSE @,
                            ![th].last_do = IF triggered THEN now ELSE @,
                            ![th].last_frame = IF out.emitted THEN now ELSE @]
    /\ UNCHANGED <<stop_event, now, reads, wire>>

\* The read raises (as it always does on a closed port): the handler runs.
ReaderReadFails(th) ==
    /\ reader[th].pc = "read"
    /\ reader' = [reader EXCEPT ![th] = ExceptionHandler(@)]
    /\ UNCHANGED <<sensors, event_queue, written, stop_event, now, reads, wire>>

\* The loop test finds the stop signal set: the loop returns.
ReaderExit(th) ==
    /\ reader[th].pc = "test"
    /\ ~LoopCondition(stop_event)
    /\ reader' = [reader EXCEPT ![th].pc = "done"]
    /\ sensors' = [sensors EXCEPT ![HandleOf(th)] = ChannelAtReturn(@)]
    /\ UNCHANGED <<event_queue, written, stop_event, now, reads, wire>>

\* The caller sets the stop signal (main's finally, the GUI's stop).
SetStop ==
    /\ ~stop_event
    /\ stop_event' = TRUE
    /\ UNCHANGED <<sensors, reader, event_queue, written, now, reads, wire>>

\* Time passes, up to the limit.
TickTo(d, limit) ==
    /\ now + d <= limit
    /\ now' = now + d
    /\ UNCHANGED <<sensors, reader, event_queue, written, stop_event, reads, wire>>

Tick(d) == TickTo(d, MaxNow)

\* The state file and the file save_state writes first.
StatePath == "app_state.json"

TmpPath == "app_state.json.tmp"

\* The state directory with neither file, and save_state not running.
NoFiles == [f \in {StatePath, TmpPath} |-> <<>>]

NotSaving == [pc |-> "idle", payload |-> <<>>, prev |-> <<>>, todo |-> <<>>]

\* No GUI is running: the reader loop is driven by a command-line caller.
NoGui ==
    /\ tree = EmptyDict
    /\ latest_salinity_psu = <<>>
    /\ latest_salinity_at = <<>>
    /\ latest_pressure = <<>>
    /\ latest_pressure_at = <<>>
    /\ latest_pressure_kpa_by_port = EmptyDict
    /\ pressure_sensor_id_by_port = EmptyDict
    /\ pressure_air_kpa_by_sensor = EmptyDict
    /\ state_file = EmptyDict
    /\ delivered = <<>>
    /\ drains = 0
    /\ drain_armed = TRUE
    /\ files = NoFiles
    /\ save = NotSaving

\* No session of the GUI: nothing connected through it, no thread kept, the
\* queue the one the caller made.
NoSession ==
    /\ _sensors = <<>>
    /\ _threads = <<>>
    /\ queue_id = 1
    /\ gui_pc = "idle"
    /\ connect_log = <<>>

(***************************************************************************)
(* The decode pipeline on its own: _pick_best_data_frame and               *)
(* parse_tab_frame applied to batches of candidate frames                  *)
(***************************************************************************)
DecodePort == "COM1"

InitDecode ==
    /\ \E t \in ConfigTypes :
           sensors = [p \in {DecodePort} |-> NewSensor(p, TxtUnknown, t)]
    /\ reader = [p \in {DecodePort} |-> NotStarted]
    /\ event_queue = <<>>
    /\ written = [p \in {DecodePort} |-> <<>>]
    /\ stop_event = FALSE
    /\ now = 0
    /\ reads = 0
    /\ wire = [p \in {DecodePort} |-> <<>>]
    /\ frames_in \in Batches(MaxBatch)
    /\ data_frame = <<>>
    /\ parsed_frame = <<>>
    /\ decoded = EmptyDict
    /\ dpc = 0
    /\ NoGui
    /\ NoSession

\* data_frame = self._pick_best_data_frame(frames)
DoPick ==
    /\ dpc = 0
    /\ data_frame' = _pick_best_data_frame(frames_in)
    /\ dpc' = 1
    /\ UNCHANGED <<frames_in, parsed_frame, decoded>>
    /\ UNCHANGED readerVars
    /\ UNCHANGED guiVars
    /\ UNCHANGED sessionVars

\* measurements = self.parse_tab_frame(frame), for a frame of the batch
DoParse(i) ==
    /\ dpc \in 1..MaxParses
    /\ i \in 1..Len(frames_in)
    /\ LET out == parse_tab_frame(sensors[DecodePort], frames_in[i], now)
       IN /\ sensors' = [sensors EXCEPT ![DecodePort] = out.sensor]
          /\ decoded' = out.measurements
    /\ parsed_frame' = frames_in[i]
    /\ dpc' = dpc + 1
    /\ UNCHANGED <<frames_in, data_frame>>
    /\ UNCHANGED <<reader, event_queue, written, stop_event, now, reads, wire>>
    /\ UNCHANGED guiVars
    /\ UNCHANGED sessionVars

NextDecode ==
    \/ DoPick
    \/ \E i \in 1..MaxBatch : DoParse(i)

SpecDecode == InitDecode /\ [][NextDecode]_vars

(***************************************************************************)
(* The reader loop of one connected sensor                                 *)
(***************************************************************************)
ReaderPort == "COM1"

\* The configured types the reader-loop specification starts from.
ReaderConfigTypes == {"unknown", "pressure"}

\* A handle as connect() leaves it on a soft connect: the port open, the
\* handle connected, the configured type kept; and the loop just entered.
InitReader ==
    /\ \E t \in ReaderConfigTypes :
           sensors = [p \in {ReaderPort} |->
                          [NewSensor(p, TxtUnknown, t) EXCEPT !.serial_port = "open",
                                                              !.is_connected = TRUE]]
    /\ reader = [p \in {ReaderPort} |-> ReaderLocals(p, 1, 0)]
    /\ event_queue = <<>>
    /\ written = [p \in {ReaderPort} |-> <<>>]
    /\ stop_event = FALSE
    /\ now = 0
    /\ reads = 0
    /\ wire = [p \in {ReaderPort} |-> <<>>]
    /\ frames_in = <<>>
    /\ data_frame = <<>>
    /\ parsed_frame = <<>>
    /\ decoded = EmptyDict
    /\ dpc = 0
    /\ NoGui
    /\ NoSession

NextReader ==
    \/ ReaderTest(ReaderPort) /\ UNCHANGED <<decodeVars, guiVars, sessionVars>>
    \/ \E chunk \in ReaderChunks :
           ReaderRead(ReaderPort, chunk) /\ UNCHANGED <<decodeVars, guiVars, sessionVars>>
    \/ \E wok \in BOOLEAN :
           ReaderProcess(ReaderPort, wok) /\ UNCHANGED <<decodeVars, guiVars, sessionVars>>
    \/ ReaderReadFails(ReaderPort) /\ UNCHANGED <<decodeVars, guiVars, sessionVars>>
    \/ ReaderExit(ReaderPort) /\ UNCHANGED <<decodeVars, guiVars, sessionVars>>
    \/ SetStop /\ UNCHANGED <<decodeVars, guiVars, sessionVars>>
    \/ \E d \in TickSteps : Tick(d) /\ UNCHANGED <<decodeVars, guiVars, sessionVars>>

SpecReader == InitReader /\ [][NextReader]_vars

(***************************************************************************)
(* The reader loop and one terminated frame whose bytes arrive split over  *)
(* the reads at any position                                               *)
(***************************************************************************)
\* The bytes the sensor sends: one oxygen frame and its terminator.
ChunkStream == WireLine(OxygenFrame) \o CRLF

\* The number of bytes of the stream the reads have returned so far.
Consumed == Len(JoinChunks(wire[ReaderPort]))

\* A read returns the bytes that have arrived: any non-empty run of the
\* stream from where the last read ended.
ChunkingRead ==
    \E j \in (Consumed + 1)..Len(ChunkStream) :
        ReaderRead(ReaderPort, SubSeq(ChunkStream, Consumed + 1, j))

NextChunking ==
    \/ ReaderTest(ReaderPort) /\ UNCHANGED <<decodeVars, guiVars, sessionVars>>
    \/ ChunkingRead /\ UNCHANGED <<decodeVars, guiVars, sessionVars>>
    \/ ReaderProcess(ReaderPort, TRUE) /\ UNCHANGED <<decodeVars, guiVars, sessionVars>>

SpecChunking == InitReader /\ [][NextChunking]_vars

(***************************************************************************)
(* The reader loop of a sensor that is silent or sends one frame at a      *)
(* time, over a span long enough for the nudge and the trigger             *)
(***************************************************************************)
\* What a read returns in these runs: nothing, or one oxygen line.
QuietChunks == {<<>>, WireLine(OxygenFrame) \o CRLF}

NextQuiet ==
    \/ ReaderTest(ReaderPort) /\ UNCHANGED <<decodeVars, guiVars, sessionVars>>
    \/ \E chunk \in QuietChunks :
           ReaderRead(ReaderPort, chunk) /\ UNCHANGED <<decodeVars, guiVars, sessionVars>>
    \/ \E wok \in BOOLEAN :
           ReaderProcess(ReaderPort, wok) /\ UNCHANGED <<decodeVars, guiVars, sessionVars>>
    \/ ReaderReadFails(ReaderPort) /\ UNCHANGED <<decodeVars, guiVars, sessionVars>>
    \/ ReaderExit(ReaderPort) /\ UNCHANGED <<decodeVars, guiVars, sessionVars>>
    \/ SetStop /\ UNCHANGED <<decodeVars, guiVars, sessionVars>>
    \/ \E d \in QuietSteps :
           TickTo(d, MaxQuiet) /\ UNCHANGED <<decodeVars, guiVars, sessionVars>>

SpecQuiet == InitReader /\ [][NextQuiet]_vars

\* The steps of the reader thread th at the loop test and at the read.
ReaderSteps(th) ==
    \/ ReaderTest(th)
    \/ \E chunk \in ReaderChunks : ReaderRead(th, chunk)
    \/ ReaderReadFails(th)
    \/ ReaderExit(th)

\* The reader thread is scheduled again and again and its serial read comes
\* back (with bytes, without, or raising) within the port's timeout of 1 s;
\* the rest of an iteration, which is possible whenever the thread is in it,
\* comes to its end.
SpecReaderFair ==
    /\ SpecReader
    /\ WF_vars(ReaderSteps(ReaderPort) /\ UNCHANGED <<decodeVars, guiVars, sessionVars>>)
    /\ []<>(reader[ReaderPort].pc # "process")

(***************************************************************************)
(* Numbers of the GUI's derived-quantity engine.  A float is kept as an    *)
(* integer count of thousandths; texts with more than three decimals are   *)
(* cut to three.                                                           *)
(***************************************************************************)
\* The characters U+00B0 and U+00B5 of the unit suffixes.
DegreeSign == "deg"

MicroSign == "micro"

RECURSIVE Pow10(_)
Pow10(e) == IF e = 0 THEN 1 ELSE 10 * Pow10(e - 1)

\* Thousandths in one unit.
Milli == Pow10(3)

Abs(x) == IF x < 0 THEN -x ELSE x

\* a / b rounded to the nearest integer, halves away from zero (b > 0).
RoundDiv(a, b) ==
    IF a >= 0 THEN (2 * a + b) \div (2 * b) ELSE -((2 * (-a) + b) \div (2 * b))

RECURSIVE DigitRun(_, _)
\* The number of consecutive digits of s from position i on.
DigitRun(s, i) ==
    IF i <= Len(s) /\ IsDigit(s[i]) THEN 1 + DigitRun(s, i + 1) ELSE 0

RECURSIVE NatOf(_)
\* int() of a sequence of digits (0 for none).
NatOf(ds) ==
    IF ds = <<>> THEN 0
    ELSE 10 * NatOf(SubSeq(ds, 1, Len(ds) - 1)) + DigitValue(ds[Len(ds)])

\* The first three fractional digits as a count of thousandths.
FracMilli(ds) ==
    NatOf(SubSeq(ds \o <<"0", "0", "0">>, 1, 3))

\* The number of digits of a fraction "." digits at position d (0 if none).
FracRun(s, d) ==
    IF d <= Len(s) /\ s[d] = "." THEN DigitRun(s, d + 1) ELSE 0

\* \d*\.?\d+ at position j, given the k digits found there and the m digits
\* of the fraction behind them: whether it matches, the unsigned value, and
\* the position after the match.
Mantissa(s, j, k, m) ==
    IF m >= 1
    THEN [ok |-> TRUE,
          value |-> NatOf(SubSeq(s, j, j + k - 1)) * Milli
                    + FracMilli(SubSeq(s, j + k + 1, j + k + m)),
          end |-> j + k + m + 1]
    ELSE IF k >= 1
    THEN [ok |-> TRUE, value |-> NatOf(SubSeq(s, j, j + k - 1)) * Milli, end |-> j + k]
    ELSE [ok |-> FALSE, value |-> 0, end |-> j]

MatchMantissa(s, j) == Mantissa(s, j, DigitRun(s, j), FracRun(s, j + DigitRun(s, j)))

\* The exponent digits at position d, given their number n and the sign.
ExponentValue(s, d, n, negative) ==
    IF n = 0 THEN 0
    ELSE IF negative THEN -NatOf(SubSeq(s, d, d + n - 1))
    ELSE NatOf(SubSeq(s, d, d + n - 1))

\* (?:[eE][-+]?\d+)? at position j: the power of ten it asks for (0 if absent).
MatchExponent(s, j) ==
    IF j <= Len(s) /\ s[j] \in {"e", "E"}
    THEN IF j + 1 <= Len(s) /\ s[j + 1] \in {"-", "+"}
         THEN ExponentValue(s, j + 2, DigitRun(s, j + 2), s[j + 1] = "-")
         ELSE ExponentValue(s, j + 1, DigitRun(s, j + 1), FALSE)
    ELSE 0

\* The least power of ten whose square is beyond the largest float, and the
\* number that stands for every float of that size or more.
OverflowExponent == 155

HugeFloat == 2000000000

\* float() of a mantissa man with exponent e and sign.
FloatOf(man, e, negative) ==
    [ok |-> man.ok,
     value |-> (IF negative THEN -1 ELSE 1)
               * (IF e >= OverflowExponent /\ man.value >= Milli THEN HugeFloat
                  ELSE IF e >= 0 THEN man.value * Pow10(e)
                  ELSE RoundDiv(man.value, Pow10(-e)))]

SignedFloat(s, i, man) == FloatOf(man, MatchExponent(s, man.end), s[i] = "-")

\* _FLOAT_RE matched at position i of s.
MatchFloatAt(s, i) ==
    SignedFloat(s, i, MatchMantissa(s, IF s[i] \in {"-", "+"} THEN i + 1 ELSE i))

RECURSIVE SearchFloat(_, _)
\* _FLOAT_RE.search(text) from position i on: the leftmost match.
SearchFloat(text, i) ==
    IF i > Len(text) THEN <<>>
    ELSE IF MatchFloatAt(text, i).ok THEN <<MatchFloatAt(text, i).value>>
    ELSE SearchFloat(text, i + 1)

\* _to_float(value): None (<<>>) or <<the float of the leftmost match>>;
\* value is None (<<>>) or <<text>>.
_to_float(value) ==
    IF value = <<>> THEN <<>> ELSE SearchFloat(Strip(value[1]), 1)

RECURSIVE NatText(_)
\* The decimal digits of a natural number.
NatText(n) ==
    IF n < 10 THEN <<Digits[n + 1]>>
    ELSE NatText(n \div 10) \o <<Digits[(n % 10) + 1]>>

\* The digits of n (0 <= n < 10^w), padded with zeros to width w.
PadText(n, w) == [i \in 1..(w - Len(NatText(n))) |-> "0"] \o NatText(n)

\* f"{x:.3f}"
Fixed3(x) ==
    (IF x < 0 THEN <<"-">> ELSE <<>>)
    \o NatText(Abs(x) \div Milli) \o <<".">> \o PadText(Abs(x) % Milli, 3)

\* A count h of hundredths as text.
Hundredths(h) ==
    (IF h < 0 THEN <<"-">> ELSE <<>>)
    \o NatText(Abs(h) \div 100) \o <<".">> \o PadText(Abs(h) % 100, 2)

\* f"{x:.2f}"
Fixed2(x) == Hundredths(RoundDiv(x, 10))

RECURSIVE RStripChar(_, _)
\* str.rstrip(c)
RStripChar(s, c) ==
    IF s # <<>> /\ s[Len(s)] = c THEN RStripChar(SubSeq(s, 1, Len(s) - 1), c) ELSE s

\* return "0" if text in {"-0", "-0.0"} else text
PlainText(text) ==
    IF text \in {<<"-", "0">>, <<"-", "0", ".", "0">>} THEN <<"0">> ELSE text

\* f"{1e200:.6f}" with its zeros and point cut: the 200 digits of the float.
Plain1e200 ==
    <<"9", "9", "9", "9", "9", "9", "9", "9", "9", "9", "9", "9", "9", "9",
      "9", "9", "6", "9", "7", "3", "3", "1", "2", "2", "2", "1", "2", "5",
      "1", "0", "3", "6", "1", "6", "5", "9", "4", "7", "4", "5", "0", "3",
      "2", "7", "5", "4", "5", "5", "0", "2", "3", "6", "2", "6", "4", "8",
      "2", "4", "1", "7", "5", "0", "9", "5", "0", "3", "4", "6", "8", "4",
      "8", "4", "3", "5", "5", "5", "4", "0", "7", "5", "5", "3", "4", "1",
      "9", "6", "3", "3", "8", "4", "0", "4", "7", "0", "6", "2", "5", "1",
      "8", "6", "8", "0", "2", "7", "5", "1", "2", "4", "1", "5", "9", "7",
      "3", "8", "8", "2", "4", "0", "8", "1", "8", "2", "1", "3", "5", "7",
      "3", "4", "3", "6", "8", "2", "7", "8", "4", "8", "4", "6", "3", "9",
      "3", "8", "5", "0", "4", "1", "0", "4", "7", "2", "3", "9", "8", "7",
      "7", "8", "7", "1", "0", "2", "3", "5", "9", "1", "0", "6", "6", "7",
      "8", "9", "9", "8", "1", "8", "1", "1", "1", "8", "1", "8", "1", "3",
      "3", "0", "6", "1", "6", "7", "1", "2", "8", "8", "5", "4", "8", "8",
      "8", "4", "4", "8">>

\* _format_plain_number(value): fixed-point text with the trailing zeros cut.
\* (Its six decimals are the float's three followed by zeros; the one float
\* beyond HugeFloat that the frames of the model hold is 1e200.)
_format_plain_number(value) ==
    IF value >= HugeFloat THEN Plain1e200
    ELSE PlainText(RStripChar(RStripChar(Fixed3(value) \o <<"0", "0", "0">>, "0"), "."))

\* _pressure_to_dbar(pressure_kpa): 1 dbar = 10 kPa.
_pressure_to_dbar(pressure_kpa) == RoundDiv(pressure_kpa, 10)

(***************************************************************************)
(* aanderaa_reader_gui.py: the physical formulas                           *)
(***************************************************************************)
\* a * b and a / b of two floats (b > 0 for the quotient).
MulMilli(a, b) == RoundDiv(a * b, Milli)

DivMilli(a, b) ==
    IF a >= 0 THEN (a \div b) * Milli + RoundDiv((a % b) * Milli, b)
    ELSE -((( -a) \div b) * Milli + RoundDiv(((-a) % b) * Milli, b))

\* The PSS-78 polynomial of the source evaluated at the (conductivity,
\* temperature, pressure) triples the model's frames produce.
Pss78Values ==
    <<40000, 20000, 0>> :> 28608 @@
    <<40000, 20000, 10130>> :> 28605 @@
    <<40000, 20000, 11130>> :> 28605

\* rt35 = ... + 0.0001104259 * T**2 + ...: the power raises OverflowError
\* when T**2 is beyond the largest float; C <= 0 has returned before.
Pss78Raises(conductivity_ms_cm, temp_c) ==
    conductivity_ms_cm > 0 /\ Abs(temp_c) >= HugeFloat

\* _pss78_salinity_from_conductivity_ms_cm: None (<<>>) unless C > 0.
_pss78_salinity_from_conductivity_ms_cm(conductivity_ms_cm, temp_c, pressure_dbar) ==
    IF conductivity_ms_cm <= 0 THEN <<>>
    ELSE <<Pss78Values[<<conductivity_ms_cm, temp_c, pressure_dbar>>]>>

\* The Weiss (1970) expression of the source evaluated at the (temperature,
\* salinity) pairs the model's frames produce.
WeissValues ==
    <<18300, 0>> :> 293594 @@
    <<18300, 29500>> :> 246124 @@
    <<18300, 28608>> :> 247440 @@
    <<18300, 28605>> :> 247444 @@
    <<20000, 0>> :> 283657 @@
    <<20000, 29500>> :> 238309 @@
    <<20000, 28608>> :> 239567 @@
    <<20000, 28605>> :> 239572

_o2_sol_umol_per_l_weiss1970(temp_c, sal_psu) == WeissValues[<<temp_c, sal_psu>>]

\* Standard atmosphere in kPa, in thousandths.
StdAtmosphere == 101325

\* _scale_o2_solubility_for_pressure(o2sol_umol_l_at_1atm, baro_kpa)
_scale_o2_solubility_for_pressure(o2sol_umol_l_at_1atm, baro_kpa) ==
    IF baro_kpa = <<>> \/ baro_kpa[1] <= 0 THEN o2sol_umol_l_at_1atm
    ELSE MulMilli(o2sol_umol_l_at_1atm, DivMilli(baro_kpa[1], StdAtmosphere))

\* _infer_sensor_type_from_product(product)
_infer_sensor_type_from_product(product) ==
    LET p == Upper(product)
    IN IF \/ StartsWith(p, <<"4", "1", "1", "7">>)
          \/ StartsWith(p, <<"5", "2", "1", "7">>)
          \/ StartsWith(p, <<"5", "2", "1", "8">>)
       THEN "pressure"
       ELSE IF \/ StartsWith(p, <<"4", "3", "3", "0">>)
               \/ StartsWith(p, <<"4", "8", "3", "5">>)
               \/ StartsWith(p, <<"4", "8", "3", "1">>)
       THEN "oxygen"
       ELSE IF \/ StartsWith(p, <<"5", "8", "1", "9">>)
               \/ StartsWith(p, <<"5", "9", "9", "0">>)
       THEN "conductivity"
       ELSE "unknown"

\* The unit suffixes of the display texts.
UnitKPa == <<" ", "k", "P", "a">>

UnitDbar == <<" ", "d", "b", "a", "r">>

UnitM == <<" ", "m">>

UnitMSCm == <<" ", "m", "S", "/", "c", "m">>

UnitDegC == <<" ", DegreeSign, "C">>

UnitUmolL == <<" ", MicroSign, "m", "o", "l", "/", "L">>

UnitPct == <<" ", "%">>

TxtTrue == <<"T", "r", "u", "e">>

\* str(com_port).upper() as text, for the places where a port stands in for
\* a sensor id.
PortText(com_port) ==
    IF com_port = "COM1" THEN <<"C", "O", "M", "1">>
    ELSE IF com_port = "COM2" THEN <<"C", "O", "M", "2">>
    ELSE <<"C", "O", "M", "3">>

\* _barometric_pressure_kpa(): the "use barometric pressure" box is off as
\* constructed, so the result is None.
_barometric_pressure_kpa == <<>>

\* Mutant of _pressure_sensor_id: the channel name is the identity.
PortAsSensorId(com_port, measurements) == PortText(com_port)

\* _pressure_sensor_id(com_port, measurements)
_pressure_sensor_id(com_port, measurements) ==
    LET product == IF "ProductNumber" \in DOMAIN measurements
                   THEN Strip(measurements["ProductNumber"]) ELSE <<>>
        serial_no == IF "SerialNumber" \in DOMAIN measurements
                     THEN Strip(measurements["SerialNumber"]) ELSE <<>>
    IN IF product # <<>> /\ serial_no # <<>>
       THEN product \o <<"_", "S", "N", "_">> \o serial_no
       ELSE PortText(com_port)

(***************************************************************************)
(* AanderaaGUI._drain_events: what it does with one event                  *)
(***************************************************************************)
\* if c: m[k] = v
SetIf(c, m, k, v) == IF c THEN DictSet(m, k, v) ELSE m

\* re.match(r"^Value\d+$", str(k))
IsValueKey(k) == \E i \in 1..Len(ValueKeyNames) : ValueKeyNames[i] = k

\* f = _to_float(text); the text, or _format_plain_number(f) if f is a number
NormalizeText(text, f) == IF f = <<>> THEN text ELSE _format_plain_number(f[1])

\* The raw Value* fields rewritten without scientific notation.
NormalizeValueFields(m) ==
    [k \in DOMAIN m |->
        IF IsValueKey(k) THEN NormalizeText(m[k], _to_float(<<m[k]>>)) ELSE m[k]]

\* The row of an event whose product gives detected_type.
UpdatedRow(row, ev, detected_type) ==
    [name |-> ev.name,
     sensor_type |-> IF detected_type # "unknown" THEN detected_type ELSE row.sensor_type,
     product |-> IF "ProductNumber" \in DOMAIN ev.measurements
                 THEN ev.measurements["ProductNumber"] ELSE row.product,
     serial |-> IF "SerialNumber" \in DOMAIN ev.measurements
                THEN ev.measurements["SerialNumber"] ELSE row.serial]

\* _update_row_for_event(ev) on the rows of the sensor table.
_update_row_for_event(rows, ev) ==
    IF ev.com_port \notin DOMAIN rows THEN rows
    ELSE [rows EXCEPT ![ev.com_port] =
             UpdatedRow(@, ev,
                        _infer_sensor_type_from_product(
                            IF "ProductNumber" \in DOMAIN ev.measurements
                            THEN ev.measurements["ProductNumber"] ELSE <<>>))]

\* _sensor_type_for_port(com_port): the live handle's type first, then the
\* table row's, then "unknown".
_sensor_type_for_port(handles, rows, com_port) ==
    IF com_port \in DOMAIN handles /\ handles[com_port].sensor_type # ""
    THEN handles[com_port].sensor_type
    ELSE IF com_port \in DOMAIN rows
    THEN (IF rows[com_port].sensor_type = "" THEN "unknown" ELSE rows[com_port].sensor_type)
    ELSE "unknown"

\* Mutant of sal: the streamed salinity is used only when PSS-78 cannot be
\* evaluated.
sal_computed_first(sal_stream, cond, t_c, p_dbar) ==
    IF cond # <<>> /\ t_c # <<>>
    THEN _pss78_salinity_from_conductivity_ms_cm(cond[1], t_c[1], p_dbar)
    ELSE sal_stream

\* sal = sal_stream
\* if sal is None and cond is not None and t_c is not None: sal = PSS-78(...)
sal(sal_stream, cond, t_c, p_dbar) ==
    IF sal_stream # <<>> THEN sal_stream
    ELSE IF cond # <<>> /\ t_c # <<>>
    THEN _pss78_salinity_from_conductivity_ms_cm(cond[1], t_c[1], p_dbar)
    ELSE <<>>

\* What the conductivity branch reads: the three fields of the event and the
\* best-known pressure in dbar (0 if no pressure sensor has reported).
ConductivityInputs(m, g) ==
    [cond |-> _to_float(DictGet(m, "Conductivity")),
     t_c |-> _to_float(DictGet(m, "Temperature")),
     sal_stream |-> _to_float(DictGet(m, "Salinity")),
     p_dbar |-> IF g.latest_pressure # <<>>
                THEN _pressure_to_dbar(g.latest_pressure[1]) ELSE 0]

\* Mutant of ConductivityResult: the latest salinity and its time are
\* assigned whether or not a salinity was determined.
ConductivityResultAlways(ev, g, in, s) ==
    [g |-> [g EXCEPT !.latest_salinity_psu = s,
                     !.latest_salinity_at = <<ev.timestamp>>],
     m |-> SetIf(in.t_c # <<>>,
                 SetIf(s # <<>> /\ in.cond # <<>>,
                       SetIf(s # <<>>, ev.measurements,
                             "Derived_Salinity_psu", Fixed3(s[1])),
                       "Conductivity", Fixed3(in.cond[1]) \o UnitMSCm),
                 "Temperature", Fixed3(in.t_c[1]) \o UnitDegC)]

\* What the conductivity branch writes, given its inputs and the salinity s.
ConductivityResult(ev, g, in, s) ==
    [g |-> IF s = <<>> THEN g
           ELSE [g EXCEPT !.latest_salinity_psu = s,
                          !.latest_salinity_at = <<ev.timestamp>>],
     m |-> SetIf(in.t_c # <<>>,
                 SetIf(s # <<>> /\ in.cond # <<>>,
                       SetIf(s # <<>>, ev.measurements,
                             "Derived_Salinity_psu", Fixed3(s[1])),
                       "Conductivity", Fixed3(in.cond[1]) \o UnitMSCm),
                 "Temperature", Fixed3(in.t_c[1]) \o UnitDegC)]

ConductivityValues(ev, g, in) ==
    ConductivityResult(ev, g, in, sal(in.sal_stream, in.cond, in.t_c, in.p_dbar))

\* The branch st == "conductivity": the context and the measurements after.
ConductivityBranch(ev, g) ==
    ConductivityValues(ev, g, ConductivityInputs(ev.measurements, g))

\* Mutant of base_kpa: a sensor without a stored baseline gets baseline 0.
base_kpa_or_zero(baselines, sensor_id) ==
    IF sensor_id \in DOMAIN baselines THEN <<baselines[sensor_id]>> ELSE <<0>>

\* base_kpa = self._pressure_air_kpa_by_sensor.get(sensor_id)
base_kpa(baselines, sensor_id) == DictGet(baselines, sensor_id)

\* Mutant of sea_dbar: negative sea pressure is clamped to 0.
sea_dbar_clamped(p_kpa, base) ==
    IF p_kpa < base THEN 0 ELSE _pressure_to_dbar(p_kpa - base)

\* sea_dbar = _pressure_to_dbar(p_kpa - float(base_kpa))
sea_dbar(p_kpa, base) == _pressure_to_dbar(p_kpa - base)

\* The fields the pressure branch writes for a parsed pressure p (kPa) and
\* the stored baseline base of the event's sensor, either of which may be None.
PressureFields(m, p, base) ==
    SetIf(p # <<>> /\ base # <<>>,
          SetIf(p # <<>> /\ base # <<>>,
                SetIf(p # <<>> /\ base # <<>>,
                      SetIf(p # <<>>,
                            SetIf(p # <<>>, m, "Pressure", Fixed3(p[1]) \o UnitKPa),
                            "Derived_Pressure_dbar",
                            Fixed3(_pressure_to_dbar(p[1])) \o UnitDbar),
                      "Derived_PressureAir_kPa", Fixed3(base[1]) \o UnitKPa),
                "Derived_SeaPressure_dbar", Fixed3(sea_dbar(p[1], base[1])) \o UnitDbar),
          "Derived_Depth_m", Fixed3(sea_dbar(p[1], base[1])) \o UnitM)

\* if t_c is not None: measurements["Temperature"] = f"{t_c:.3f} °C"
TemperatureUnit(m, t_c) ==
    SetIf(t_c # <<>>, m, "Temperature", Fixed3(t_c[1]) \o UnitDegC)

WithTemperatureUnit(m) == TemperatureUnit(m, _to_float(DictGet(m, "Temperature")))

\* What the pressure branch writes, given the parsed pressure and sensor id.
PressureResult(ev, g, p, sensor_id, baselines) ==
    [g |-> IF p = <<>> THEN g
           ELSE [g EXCEPT !.pressure_sensor_id_by_port = DictSet(@, ev.com_port, sensor_id),
                          !.latest_pressure_kpa_by_port = DictSet(@, ev.com_port, p[1]),
                          !.latest_pressure = p,
                          !.latest_pressure_at = <<ev.timestamp>>],
     m |-> WithTemperatureUnit(
               PressureFields(ev.measurements, p, base_kpa(baselines, sensor_id)))]

\* The branch st == "pressure".
PressureBranch(ev, g, baselines) ==
    PressureResult(ev, g, _to_float(DictGet(ev.measurements, "Pressure")),
                   _pressure_sensor_id(ev.com_port, ev.measurements), baselines)

\* sal_used = float(sal_psu) if sal_psu is not None else 0.0
sal_used(sal_psu) == IF sal_psu # <<>> THEN sal_psu[1] ELSE 0

\* Mutant of assumed_salinity: the flag is never raised.
assumed_salinity_never(sal_psu) == FALSE

\* assumed_salinity = sal_psu is None
assumed_salinity(sal_psu) == sal_psu = <<>>

\* The fields the try-block of the oxygen branch writes, given the solubility
\* o2sol, the barometric pressure and the parsed concentration.
OxygenFields(m, sat_pct, sal_psu, o2sol, baro_kpa, conc) ==
    SetIf(conc # <<>> /\ o2sol > 0,
          SetIf(sat_pct # <<>>,
                SetIf(baro_kpa # <<>>,
                      SetIf(assumed_salinity(sal_psu),
                            DictSet(DictSet(m, "Derived_O2Sol_umolL", Fixed2(o2sol)),
                                    "Derived_Salinity_psu", Fixed3(sal_used(sal_psu))),
                            "Derived_Salinity_assumed", TxtTrue),
                      "Derived_Baro_kPa", Fixed2(baro_kpa[1])),
                "Derived_O2_umolL_from_sat",
                Fixed2(MulMilli(RoundDiv(sat_pct[1], 100), o2sol))),
          "Derived_O2Sat_pct_from_conc", Fixed2(DivMilli(100 * conc[1], o2sol)))

\* The try-block of the oxygen branch for a parsed temperature temp_c.
OxygenDerived(m, temp_c, sat_pct, sal_psu) ==
    OxygenFields(m, sat_pct, sal_psu,
                 _scale_o2_solubility_for_pressure(
                     _o2_sol_umol_per_l_weiss1970(temp_c, sal_used(sal_psu)),
                     _barometric_pressure_kpa),
                 _barometric_pressure_kpa,
                 _to_float(DictGet(m, "O2Concentration")))

\* The units added to the basic displayed keys.
OxygenUnits(m, temp_c, conc, sat_pct) ==
    SetIf(sat_pct # <<>>,
          SetIf(conc # <<>>,
                TemperatureUnit(m, temp_c),
                "O2Concentration", Fixed2(conc[1]) \o UnitUmolL),
          "O2Saturation", Fixed2(sat_pct[1]) \o UnitPct)

\* What the oxygen branch writes, given the parsed temperature and saturation.
OxygenResult(ev, g, temp_c, sat_pct) ==
    [g |-> g,
     m |-> OxygenUnits(IF temp_c # <<>>
                       THEN OxygenDerived(ev.measurements, temp_c[1], sat_pct,
                                          g.latest_salinity_psu)
                       ELSE ev.measurements,
                       temp_c, _to_float(DictGet(ev.measurements, "O2Concentration")),
                       sat_pct)]

\* The branch st == "oxygen".
OxygenBranch(ev, g) ==
    OxygenResult(ev, g, _to_float(DictGet(ev.measurements, "Temperature")),
                 _to_float(DictGet(ev.measurements, "O2Saturation")))

\* The branch of _drain_events taken for the sensor type st.
BranchOut(ev, g, st, baselines) ==
    IF st = "conductivity" THEN ConductivityBranch(ev, g)
    ELSE IF st = "pressure" THEN PressureBranch(ev, g, baselines)
    ELSE IF st = "oxygen" THEN OxygenBranch(ev, g)
    ELSE [g |-> g, m |-> ev.measurements]

\* The outcome of one iteration: the context afterwards and what the sinks
\* are given, with the sensor type used and the context the event found.
DrainRecord(ev, g, st, baselines, out) ==
    [g |-> out.g,
     event |-> [ev EXCEPT !.measurements = out.m],
     st |-> st,
     found |-> [latest_salinity_psu |-> g.latest_salinity_psu,
                latest_salinity_at |-> g.latest_salinity_at,
                latest_pressure |-> g.latest_pressure,
                pressure_air_kpa_by_sensor |-> baselines]]

\* st = self._sensor_type_for_port(ev.com_port), then the branch; g1 is the
\* context g with the table row updated.
DrainTyped(ev, g, g1, st, baselines) ==
    DrainRecord(ev, g, st, baselines, BranchOut(ev, g1, st, baselines))

DrainRow(ev, g, g1, handles, baselines) ==
    DrainTyped(ev, g, g1, _sensor_type_for_port(handles, g1.tree, ev.com_port), baselines)

\* self._update_row_for_event(ev), then the rest, for an event whose Value*
\* fields are normalised.
DrainNormalized(ev, g, handles, baselines) ==
    DrainRow(ev, g, [g EXCEPT !.tree = _update_row_for_event(@, ev)], handles, baselines)

\* One iteration of the drain loop: the event ev taken from the queue with
\* the context g.
DrainOne(ev, g, handles, baselines) ==
    DrainNormalized([ev EXCEPT !.measurements = NormalizeValueFields(@)],
                    g, handles, baselines)

\* The conductivity branch calls the PSS-78 function outside any try: with
\* no streamed salinity and both inputs parsed, what it raises leaves the pass.
ConductivityRaises(in) ==
    /\ in.sal_stream = <<>>
    /\ in.cond # <<>>
    /\ in.t_c # <<>>
    /\ Pss78Raises(in.cond[1], in.t_c[1])

\* The event and the context when the branch of an iteration begins.
Normalized(ev) == [ev EXCEPT !.measurements = NormalizeValueFields(@)]

RowUpdated(ev, g) == [g EXCEPT !.tree = _update_row_for_event(@, ev)]

RaisesAtBranch(ev, g1, handles) ==
    /\ _sensor_type_for_port(handles, g1.tree, ev.com_port) = "conductivity"
    /\ ConductivityRaises(ConductivityInputs(ev.measurements, g1))

\* The iteration for ev raises an exception that nothing in the pass catches.
IterationRaises(ev, g, handles) ==
    RaisesAtBranch(Normalized(ev), RowUpdated(Normalized(ev), g), handles)

\* What the history keeps of one iteration.
LogEntry(one) == [event |-> one.event, st |-> one.st, found |-> one.found]

RECURSIVE DrainFrom(_, _, _, _, _)
DrainNext(rest, one, log, handles, baselines) ==
    DrainFrom(rest, one.g, Append(log, LogEntry(one)), handles, baselines)

\* while True: ev = self._event_queue.get_nowait() ...
\* raised: an iteration raised and the pass ended there (the event it had
\* taken is gone, its row is updated, the events behind it stay queued).
DrainFrom(events, g, log, handles, baselines) ==
    IF events = <<>> THEN [g |-> g, log |-> log, raised |-> FALSE, rest |-> <<>>]
    ELSE IF IterationRaises(Head(events), g, handles)
    THEN [g |-> RowUpdated(Normalized(Head(events)), g), log |-> log,
          raised |-> TRUE, rest |-> Tail(events)]
    ELSE DrainNext(Tail(events), DrainOne(Head(events), g, handles, baselines),
                   log, handles, baselines)

\* Mutant of DrainQueue: every event of a pass is processed against the
\* context the pass started with.
DrainQueueSnapshot(events, g, handles, baselines) ==
    [g |-> DrainOne(events[Len(events)], g, handles, baselines).g,
     log |-> [i \in 1..Len(events) |->
                 LogEntry(DrainOne(events[i], g, handles, baselines))],
     raised |-> FALSE, rest |-> <<>>]

\* Mutant of DrainQueue: the pass takes the newest event first.
DrainQueueNewestFirst(events, g, handles, baselines) ==
    DrainFrom([i \in 1..Len(events) |-> events[Len(events) + 1 - i]],
              g, <<>>, handles, baselines)

\* One pass of _drain_events over the queued events.
DrainQueue(events, g, handles, baselines) ==
    DrainFrom(events, g, <<>>, handles, baselines)

(***************************************************************************)
(* The GUI streaming from three sensors                                    *)
(***************************************************************************)
ConductivityPort == "COM1"

OxygenPort == "COM2"

PressurePort == "COM3"

EnginePorts == {ConductivityPort, OxygenPort, PressurePort}

\* A conductivity reading the PSS-78 function rejects.
TxtMinus1_0 == <<"-", "1", ".", "0">>

ConductivityFrameBad == <<Txt5819, Txt7, TxtMinus1_0, Txt20_0>>

\* A pressure frame with one value only: no Pressure field is decoded.
PressureFrameShort == <<Txt4117B, Txt1234, Txt101_3>>

\* The lines each sensor sends, one per read.
EngineChunks(p) ==
    IF p = ConductivityPort
    THEN {WireLine(ConductivityFrame2) \o CRLF, WireLine(ConductivityFrame3) \o CRLF,
          WireLine(ConductivityFrameBad) \o CRLF}
    ELSE IF p = OxygenPort
    THEN {WireLine(OxygenFrame) \o CRLF, WireLine(OxygenFrame2) \o CRLF,
          WireLine(PressureFrame) \o CRLF}
    ELSE {WireLine(PressureFrame) \o CRLF, WireLine(PressureFrameDeep) \o CRLF,
          WireLine(PressureFrameShort) \o CRLF}

\* The sensor id of the pressure sensor of the model.
PressureSensorId == Txt4117B \o <<"_", "S", "N", "_">> \o Txt1234

\* The baselines a state file may hold when the GUI is constructed.
StoredBaselines == {EmptyDict, [k \in {PressureSensorId} |-> 111300]}

\* The sensor types of the configuration table.
EngineConfigType(p) ==
    IF p = ConductivityPort THEN "conductivity"
    ELSE IF p = OxygenPort THEN "unknown"
    ELSE "pressure"

\* The context _drain_events reads and writes.
GuiContext ==
    [tree |-> tree,
     latest_salinity_psu |-> latest_salinity_psu,
     latest_salinity_at |-> latest_salinity_at,
     latest_pressure |-> latest_pressure,
     latest_pressure_at |-> latest_pressure_at,
     latest_pressure_kpa_by_port |-> latest_pressure_kpa_by_port,
     pressure_sensor_id_by_port |-> pressure_sensor_id_by_port]

\* The GUI constructed (__init__), the sensors of the table connected
\* (soft connect) and streaming started (_start_streaming).
InitEngine ==
    /\ sensors = [p \in EnginePorts |->
                     [NewSensor(p, TxtUnknown, EngineConfigType(p))
                          EXCEPT !.serial_port = "open", !.is_connected = TRUE]]
    /\ reader = [p \in EnginePorts |-> ReaderLocals(p, 1, 0)]
    /\ event_queue = <<>>
    /\ written = [p \in EnginePorts |-> Stamped(<<"Start\r\n">>, 0)]
    /\ stop_event = FALSE
    /\ now = 0
    /\ reads = 0
    /\ wire = [p \in EnginePorts |-> <<>>]
    /\ frames_in = <<>>
    /\ data_frame = <<>>
    /\ parsed_frame = <<>>
    /\ decoded = EmptyDict
    /\ dpc = 0
    /\ tree = [p \in EnginePorts |->
                  [name |-> TxtUnknown, sensor_type |-> EngineConfigType(p),
                   product |-> <<>>, serial |-> <<>>]]
    /\ latest_salinity_psu = <<>>
    /\ latest_salinity_at = <<>>
    /\ latest_pressure = <<>>
    /\ latest_pressure_at = <<>>
    /\ latest_pressure_kpa_by_port = EmptyDict
    /\ pressure_sensor_id_by_port = EmptyDict
    /\ state_file \in StoredBaselines
    /\ pressure_air_kpa_by_sensor = state_file
    /\ delivered = <<>>
    /\ drains = 0
    /\ drain_armed = TRUE
    /\ files = NoFiles
    /\ save = NotSaving
    /\ _sensors = <<ConductivityPort, OxygenPort, PressurePort>>
    /\ _threads = <<ConductivityPort, OxygenPort, PressurePort>>
    /\ queue_id = 1
    /\ gui_pc = "idle"
    /\ connect_log = <<>>

\* The last queued event of each port is the dict its handle holds as
\* last_measurement: the in-place edits of the drain show through it.
LastQueuedOf(events, p) ==
    LET idx == {i \in 1..Len(events) : events[i].com_port = p}
    IN IF idx = {} THEN 0 ELSE CHOOSE i \in idx : \A j \in idx : j <= i

\* The handle h is the one a reader thread feeding the present queue parses
\* its frames with.
Produces(h) ==
    \E th \in DOMAIN reader :
        /\ reader[th].sensor = h
        /\ reader[th].out_queue = queue_id

\* self._sensors as _sensor_type_for_port searches it: for each port the
\* first handle of the list on that port.
LiveHandles ==
    [p \in {sensors[_sensors[i]].com_port : i \in 1..Len(_sensors)} |->
        sensors[_sensors[CHOOSE i \in 1..Len(_sensors) :
                             /\ sensors[_sensors[i]].com_port = p
                             /\ \A j \in 1..(i - 1) : sensors[_sensors[j]].com_port # p]]]

\* The measurements of the i-th queued event after the pass: edited by its
\* iteration, normalised only by an iteration that raised, untouched if the
\* pass ended before it.
EditedMeasurements(out, i) ==
    IF i <= Len(out.log) THEN out.log[i].event.measurements
    ELSE IF i = Len(out.log) + 1
    THEN NormalizeValueFields(event_queue[i].measurements)
    ELSE event_queue[i].measurements

\* The assignments of one pass whose outcome is out; the last statement of
\* the pass, self.after(300, self._drain_events), is reached only if no
\* iteration raised.
DrainApply(out) ==
    /\ tree' = out.g.tree
    /\ latest_salinity_psu' = out.g.latest_salinity_psu
    /\ latest_salinity_at' = out.g.latest_salinity_at
    /\ latest_pressure' = out.g.latest_pressure
    /\ latest_pressure_at' = out.g.latest_pressure_at
    /\ latest_pressure_kpa_by_port' = out.g.latest_pressure_kpa_by_port
    /\ pressure_sensor_id_by_port' = out.g.pressure_sensor_id_by_port
    /\ delivered' = delivered \o
           [i \in 1..Len(out.log) |->
               [event |-> out.log[i].event, st |-> out.log[i].st,
                found |-> out.log[i].found, pass |-> drains + 1]]
    /\ sensors' = [h \in DOMAIN sensors |->
                      IF Produces(h) /\ LastQueuedOf(event_queue, sensors[h].com_port) # 0
                      THEN [sensors[h] EXCEPT !.last_measurement =
                                EditedMeasurements(out, LastQueuedOf(event_queue,
                                                                     sensors[h].com_port))]
                      ELSE sensors[h]]
    /\ event_queue' = out.rest
    /\ drain_armed' = ~out.raised

\* Mutant of BaselinesAfterDrain: the first pressure sample of a sensor
\* without a baseline is stored as its baseline.
BaselinesAutoSet(baselines, log) ==
    IF \E i \in 1..Len(log) : log[i].st = "pressure"
    THEN DictSet(baselines, PressureSensorId, StdAtmosphere)
    ELSE baselines

\* The baseline map after a pass that processed the events of log: the pass
\* reads the map (self._pressure_air_kpa_by_sensor.get) and never assigns it.
BaselinesAfterDrain(baselines, log) == baselines

\* _drain_events with events waiting (with none it only re-arms its timer).
_drain_events ==
    /\ drain_armed
    /\ event_queue # <<>>
    /\ DrainApply(DrainQueue(event_queue, GuiContext, LiveHandles, pressure_air_kpa_by_sensor))
    /\ pressure_air_kpa_by_sensor' =
           BaselinesAfterDrain(pressure_air_kpa_by_sensor,
               DrainQueue(event_queue, GuiContext, LiveHandles, pressure_air_kpa_by_sensor).log)
    /\ drains' = drains + 1
    /\ UNCHANGED <<reader, written, stop_event, now, reads, wire>>
    /\ UNCHANGED <<state_file, files, save>>
    /\ UNCHANGED decodeVars
    /\ UNCHANGED sessionVars

\* self._tree.get_children(): the rows of the table in their order.
TreeChildren == <<ConductivityPort, OxygenPort, PressurePort>>

RECURSIVE SelectPorts(_, _)
SelectPorts(ports, keep) ==
    IF ports = <<>> THEN <<>>
    ELSE IF Head(ports) \in keep THEN <<Head(ports)>> \o SelectPorts(Tail(ports), keep)
    ELSE SelectPorts(Tail(ports), keep)

\* The ports of the table rows typed "pressure" that have a pressure sample,
\* in the order of the rows.
\* (The last value of the Pressure_kPa plot series, which the handler prefers,
\* is the value of _latest_pressure_kpa_by_port: both are written together.)
BaselinePorts ==
    SelectPorts(TreeChildren,
                {p \in DOMAIN tree : tree[p].sensor_type = "pressure"
                                     /\ p \in DOMAIN latest_pressure_kpa_by_port})

RECURSIVE AssignBaselines(_, _)
\* for sensor_id, baseline_kpa in assignments: map[sensor_id] = baseline_kpa
AssignBaselines(ports, baselines) ==
    IF ports = <<>> THEN baselines
    ELSE AssignBaselines(Tail(ports),
                         DictSet(baselines,
                                 IF Head(ports) \in DOMAIN pressure_sensor_id_by_port
                                 THEN pressure_sensor_id_by_port[Head(ports)]
                                 ELSE PortText(Head(ports)),
                                 latest_pressure_kpa_by_port[Head(ports)]))

\* _tutorial_and_set_pressure_baseline, the user answering yes twice.
_tutorial_and_set_pressure_baseline ==
    /\ BaselinePorts # <<>>
    /\ pressure_air_kpa_by_sensor' = AssignBaselines(BaselinePorts, pressure_air_kpa_by_sensor)
    /\ state_file' = pressure_air_kpa_by_sensor'
    /\ UNCHANGED readerVars
    /\ UNCHANGED decodeVars
    /\ UNCHANGED sessionVars
    /\ UNCHANGED <<tree, latest_salinity_psu, latest_salinity_at, latest_pressure,
                   latest_pressure_at, latest_pressure_kpa_by_port,
                   pressure_sensor_id_by_port, delivered, drains, drain_armed,
                   files, save>>

\* _clear_pressure_baseline, the user answering yes.
_clear_pressure_baseline ==
    /\ pressure_air_kpa_by_sensor # EmptyDict
    /\ pressure_air_kpa_by_sensor' = EmptyDict
    /\ state_file' = EmptyDict
    /\ UNCHANGED readerVars
    /\ UNCHANGED decodeVars
    /\ UNCHANGED sessionVars
    /\ UNCHANGED <<tree, latest_salinity_psu, latest_salinity_at, latest_pressure,
                   latest_pressure_at, latest_pressure_kpa_by_port,
                   pressure_sensor_id_by_port, delivered, drains, drain_armed,
                   files, save>>

NextEngine ==
    \/ \E p \in EnginePorts :
           ReaderTest(p) /\ UNCHANGED <<decodeVars, guiVars, sessionVars>>
    \/ \E p \in EnginePorts : \E chunk \in EngineChunks(p) :
           ReaderRead(p, chunk) /\ UNCHANGED <<decodeVars, guiVars, sessionVars>>
    \/ \E p \in EnginePorts :
           ReaderProcess(p, TRUE) /\ UNCHANGED <<decodeVars, guiVars, sessionVars>>
    \/ _drain_events
    \/ _tutorial_and_set_pressure_baseline
    \/ _clear_pressure_baseline

SpecEngine == InitEngine /\ [][NextEngine]_vars

(***************************************************************************)
(* The drain pass and a reading out of the range of the formulas           *)
(***************************************************************************)
Txt1e200 == <<"1", "e", "2", "0", "0">>

\* A conductivity frame whose temperature field reads 1e200.
ConductivityFrameHot == <<Txt5819, Txt7, Txt40_0, Txt1e200>>

\* The lines each sensor sends, one per read.
DeriveChunks(p) ==
    IF p = ConductivityPort
    THEN {WireLine(ConductivityFrame2) \o CRLF, WireLine(ConductivityFrameHot) \o CRLF}
    ELSE IF p = OxygenPort THEN {WireLine(OxygenFrame) \o CRLF}
    ELSE {WireLine(PressureFrame) \o CRLF}

NextDerive ==
    \/ \E p \in EnginePorts :
           ReaderTest(p) /\ UNCHANGED <<decodeVars, guiVars, sessionVars>>
    \/ \E p \in EnginePorts : \E chunk \in DeriveChunks(p) :
           ReaderRead(p, chunk) /\ UNCHANGED <<decodeVars, guiVars, sessionVars>>
    \/ \E p \in EnginePorts :
           ReaderProcess(p, TRUE) /\ UNCHANGED <<decodeVars, guiVars, sessionVars>>
    \/ _drain_events

SpecDerive == InitEngine /\ [][NextDerive]_vars

(***************************************************************************)
(* AanderaaSensorCustom.connect and disconnect                             *)
(***************************************************************************)
\* _read_for: the bytes that arrive in the window, each read decoded with
\* decode("ascii", errors="ignore") and the pieces joined.
_read_for(window) == DecodeAscii(window)

\* What one call of connect() meets.  error: "open" when serial.Serial()
\* raises, "io" when a later call on the opened port raises, "none" otherwise;
\* wake, probe, probe2: the bytes arriving in the three windows.
ConnectIO(error, wake, probe, probe2) ==
    [error |-> error, wake |-> wake, probe |-> probe, probe2 |-> probe2]

\* The writes of the wake sequence: three newlines and ';'.
WakeWrites == <<"\r\n", "\r\n", "\r\n", ";">>

FirstProbe(probe) == _pick_best_data_frame(_extract_tab_frames(_read_for(probe)))

\* Mutant of ProbedFrame: the second probe is not tried.
ProbedFrameFirstOnly(probe, probe2) == FirstProbe(probe)

\* data_frame after PROBE 1 and, if that gave none, PROBE 2.
ProbedFrame(probe, probe2) ==
    IF FirstProbe(probe) # <<>>
    THEN FirstProbe(probe)
    ELSE _pick_best_data_frame(_extract_tab_frames(_read_for(probe2)))

\* if data_frame: protocol_mode, product_number, serial_number, sensor_type,
\* name, is_connected.
Identified(self, frame) ==
    [self EXCEPT !.serial_port = "open",
                 !.protocol_mode = "tab",
                 !.product_number = <<frame[1]>>,
                 !.serial_number = <<frame[2]>>,
                 !.sensor_type = IF _infer_sensor_type(frame[1]) # "unknown"
                                 THEN _infer_sensor_type(frame[1])
                                 ELSE @,
                 !.name = SensorName(frame[1], frame[2]),
                 !.is_connected = TRUE]

\* if wake_resp: protocol_mode = "unknown"; is_connected = True
SoftConnected(self) ==
    [self EXCEPT !.serial_port = "open",
                 !.protocol_mode = "unknown",
                 !.is_connected = TRUE]

\* Mutant of GaveUp: the port is left open.
GaveUpOpen(self) == [self EXCEPT !.serial_port = "open"]

\* self.serial_port.close() before return False
GaveUp(self) == [self EXCEPT !.serial_port = "closed"]

\* The end of connect() once the windows have been read.
ConnectResult(self, wake_resp, frame, writes) ==
    IF frame # <<>>
    THEN [sensor |-> Identified(self, frame), ok |-> TRUE, writes |-> writes]
    ELSE IF wake_resp # <<>>
    THEN [sensor |-> SoftConnected(self), ok |-> TRUE, writes |-> writes]
    ELSE [sensor |-> GaveUp(self), ok |-> FALSE, writes |-> writes]

\* Mutant of ConnectWrites: the newline after the first probe is written
\* whether or not that probe gave a frame.
ConnectWritesAlwaysNudge(io) == Append(WakeWrites, "\r\n")

\* What a call of connect() that raises nothing writes: the wake sequence
\* and, under "if not data_frame:" after PROBE 1, one more newline.
ConnectWrites(io) ==
    IF FirstProbe(io.probe) # <<>>
    THEN WakeWrites
    ELSE Append(WakeWrites, "\r\n")

\* connect(): the handle it leaves, what it returns and what it wrote.  When
\* serial.Serial() raises, self.serial_port is not assigned; when a later call
\* raises, the port stays open; in both cases the handler returns False.
connect(self, io) ==
    IF io.error = "open"
    THEN [sensor |-> self, ok |-> FALSE, writes |-> <<>>]
    ELSE IF io.error = "io"
    THEN [sensor |-> [self EXCEPT !.serial_port = "open"], ok |-> FALSE, writes |-> <<>>]
    ELSE ConnectResult(self, _read_for(io.wake), ProbedFrame(io.probe, io.probe2),
                       ConnectWrites(io))

\* disconnect(): if self.serial_port and self.serial_port.is_open: close
disconnect(self) ==
    IF self.serial_port = "open"
    THEN [self EXCEPT !.serial_port = "closed", !.is_connected = FALSE]
    ELSE self

\* The bytes that may arrive in the wake window and the two probe windows.
WakeWindows == {<<>>, <<"%">>, <<"0xFF">>}

ProbeWindows ==
    {<<>>, <<"*">>, WireLine(ErrorFrame) \o CRLF, WireLine(OxygenFrame) \o CRLF,
     WireLine(UnknownProductFrame) \o CRLF}

Probe2Windows == {<<>>, WireLine(ErrorFrame) \o CRLF, WireLine(PressureFrame) \o CRLF}

ConnectInputs ==
    {ConnectIO("open", <<>>, <<>>, <<>>), ConnectIO("io", <<>>, <<>>, <<>>)}
    \cup {ConnectIO("none", w, p, q) : w \in WakeWindows, p \in ProbeWindows,
                                        q \in Probe2Windows}

\* for attempt in range(3): the connect worker of the GUI calls connect() on
\* the same handle again while its serial_port is None.
ConnectAttempts == 3

ConnectPort == "COM1"

\* A handle just constructed from a row of the configuration.
InitConnect ==
    /\ \E t \in ConfigTypes :
           sensors = [p \in {ConnectPort} |-> NewSensor(p, TxtUnknown, t)]
    /\ reader = [p \in {ConnectPort} |-> NotStarted]
    /\ event_queue = <<>>
    /\ written = [p \in {ConnectPort} |-> <<>>]
    /\ stop_event = FALSE
    /\ now = 0
    /\ reads = 0
    /\ wire = [p \in {ConnectPort} |-> <<>>]
    /\ frames_in = <<>>
    /\ data_frame = <<>>
    /\ parsed_frame = <<>>
    /\ decoded = EmptyDict
    /\ dpc = 0
    /\ NoGui
    /\ NoSession

\* One record of connect_log.
ConnectRecord(before, io, out) ==
    [before |-> before, io |-> io, after |-> out.sensor, ok |-> out.ok]

\* sensor.connect() on the handle h, whose serial_port is None as it is at
\* every call in the program.
Connect(h, io) ==
    /\ sensors[h].serial_port = "none"
    /\ Len(connect_log) < ConnectAttempts
    /\ sensors' = [sensors EXCEPT ![h] = connect(@, io).sensor]
    /\ written' = [written EXCEPT ![sensors[h].com_port] =
                       @ \o Stamped(connect(sensors[h], io).writes, now)]
    /\ connect_log' = Append(connect_log, ConnectRecord(sensors[h], io, connect(sensors[h], io)))
    /\ UNCHANGED <<reader, event_queue, stop_event, now, reads, wire>>
    /\ UNCHANGED <<_sensors, _threads, queue_id, gui_pc>>
    /\ UNCHANGED <<decodeVars, guiVars>>

NextConnect == \E io \in ConnectInputs : Connect(ConnectPort, io)

SpecConnect == InitConnect /\ [][NextConnect]_vars

(***************************************************************************)
(* One handle connected and then fed the frames of its stream: connect()   *)
(* followed by calls of parse_tab_frame                                    *)
(***************************************************************************)
\* The frames the stream of the connected sensor carries.
TypingFrames == {OxygenFrame, PressureFrame, UnknownProductFrame, OneFieldFrame}

\* measurements = sensor.parse_tab_frame(data_frame) in the reader loop of a
\* handle whose port is open.
ParseFrame(h, f) ==
    /\ sensors[h].serial_port = "open"
    /\ dpc < MaxParses
    /\ sensors' = [sensors EXCEPT ![h] = parse_tab_frame(@, f, now).sensor]
    /\ decoded' = parse_tab_frame(sensors[h], f, now).measurements
    /\ parsed_frame' = f
    /\ dpc' = dpc + 1
    /\ UNCHANGED <<frames_in, data_frame>>
    /\ UNCHANGED <<reader, event_queue, written, stop_event, now, reads, wire>>
    /\ UNCHANGED guiVars
    /\ UNCHANGED sessionVars

NextTyping ==
    \/ \E io \in ConnectInputs : Connect(ConnectPort, io)
    \/ \E f \in TypingFrames : ParseFrame(ConnectPort, f)

SpecTyping == InitConnect /\ [][NextTyping]_vars

(***************************************************************************)
(* Frame extraction: _extract_tab_frames called by one handle on texts     *)
(***************************************************************************)
\* Texts: empty, terminated and unterminated frames, lines without a tab,
\* empty lines, a line of tabs only, framing marks, two frames, the device's
\* error line, padded fields, a wake response, mixed terminators.
ExtractTexts ==
    {<<>>,
     <<"4", "1", "1", "7", "B", TAB, "1", "2", "3", "4", TAB, "1", "0", "1", ".", "3", TAB, "1", "8", ".", "3", CR, LF>>,
     <<"4", "1", "1", "7", "B", TAB, "1", "2", "3", "4", TAB, "1", "0", "1", ".", "3", TAB, "1", "8", ".", "3">>,
     <<"n", "o", " ", "t", "a", "b", " ", "h", "e", "r", "e", CR, LF>>,
     <<CR, LF, CR, LF>>,
     <<TAB, TAB, CR, LF>>,
     <<"!", "4", "3", "3", "0", TAB, "5", TAB, "2", "5", "0", ".", "1", TAB, "9", "8", ".", "2", TAB, "1", "8", ".", "3", "!", LF>>,
     <<"5", "8", "1", "9", TAB, "7", TAB, "4", "0", ".", "0", TAB, "2", "0", ".", "0", CR, LF, "4", "3", "3", "0", TAB, "5", TAB, "2", "5", "0", ".", "1", TAB, "9", "8", ".", "2", TAB, "1", "8", ".", "3", CR, LF>>,
     <<"*", TAB, "E", "R", "R", "O", "R", TAB, "S", "Y", "N", "T", "A", "X", " ", "E", "R", "R", "O", "R", CR, LF>>,
     <<" ", "5", "8", "1", "9", " ", TAB, " ", "7", " ", TAB, TAB, "4", "0", ".", "0", CR>>,
     <<"%">>,
     <<"a", "b", "c", CR, "5", "8", "1", "9", TAB, "7", LF>>}

\* Mutant of ExtractCall: the method marks the handle when it finds a frame.
ExtractCallMarking(self, raw) ==
    [sensor |-> IF _extract_tab_frames(raw) # <<>>
                THEN [self EXCEPT !.protocol_mode = "tab"] ELSE self,
     frames |-> _extract_tab_frames(raw)]

\* The call self._extract_tab_frames(raw): the handle after it and the list
\* returned.  The method reads and writes no attribute of self.
ExtractCall(self, raw) == [sensor |-> self, frames |-> _extract_tab_frames(raw)]

InitExtract ==
    /\ \E t \in ConfigTypes :
           sensors = [p \in {DecodePort} |-> NewSensor(p, TxtUnknown, t)]
    /\ reader = [p \in {DecodePort} |-> NotStarted]
    /\ event_queue = <<>>
    /\ written = [p \in {DecodePort} |-> <<>>]
    /\ stop_event = FALSE
    /\ now = 0
    /\ reads = 0
    /\ wire = [p \in {DecodePort} |-> <<>>]
    /\ frames_in = <<>>
    /\ data_frame = <<>>
    /\ parsed_frame = <<>>
    /\ decoded = EmptyDict
    /\ dpc = 0
    /\ NoGui
    /\ NoSession

\* frames = sensor._extract_tab_frames(raw); wire keeps the texts given.
Extract(raw) ==
    /\ dpc < MaxParses
    /\ wire' = [wire EXCEPT ![DecodePort] = Append(@, raw)]
    /\ sensors' = [sensors EXCEPT ![DecodePort] = ExtractCall(@, raw).sensor]
    /\ frames_in' = ExtractCall(sensors[DecodePort], raw).frames
    /\ dpc' = dpc + 1
    /\ UNCHANGED <<data_frame, parsed_frame, decoded>>
    /\ UNCHANGED <<reader, event_queue, written, stop_event, now, reads>>
    /\ UNCHANGED guiVars
    /\ UNCHANGED sessionVars

NextExtract == \E raw \in ExtractTexts : Extract(raw)

SpecExtract == InitExtract /\ [][NextExtract]_vars

(***************************************************************************)
(* The overlay of named fields: frames of each family with no to four      *)
(* values parsed by handles of every configured type                       *)
(***************************************************************************)
OverlayProducts == {Txt4330, Txt4117B, Txt5819, Txt9999}

\* Four values, each different from the others.
OverlayValues == <<Txt210_5, Txt98_2, Txt18_3, Txt40_0>>

OverlayFrames ==
    {<<p, Txt7>> \o SubSeq(OverlayValues, 1, n) : p \in OverlayProducts, n \in 0..4}

NextOverlay ==
    \/ Connect(ConnectPort, ConnectIO("none", <<"%">>, <<>>, <<>>))
    \/ \E f \in OverlayFrames : ParseFrame(ConnectPort, f)

SpecOverlay == InitConnect /\ [][NextOverlay]_vars

(***************************************************************************)
(* Type inference: frames of many product numbers parsed by one handle     *)
(***************************************************************************)
\* Product numbers: the eight of the table, longer ones, shorter ones, other
\* numbers, the empty text, and numbers of the table not at the start.
InferProducts ==
    {<<"4", "1", "1", "7">>,
     <<"5", "2", "1", "7">>,
     <<"5", "2", "1", "8">>,
     <<"4", "3", "3", "0">>,
     <<"4", "8", "3", "5">>,
     <<"4", "8", "3", "1">>,
     <<"5", "8", "1", "9">>,
     <<"5", "9", "9", "0">>,
     <<"4", "1", "1", "7", "X">>,
     <<"4", "3", "3", "0", "Y">>,
     <<"5", "8", "1", "9", "Z">>,
     <<"5", "2", "1", "8", "r">>,
     <<"4", "8", "3", "1", "-", "2">>,
     <<"5", "9", "9", "0", "A">>,
     <<"9", "9", "9", "9">>,
     <<"4", "1", "1">>,
     <<"5", "8">>,
     <<>>,
     <<" ", "4", "1", "1", "7">>,
     <<"X", "4", "3", "3", "0">>,
     <<"4", "1", "1", "8">>,
     <<"5", "9", "9", "1">>,
     <<"4", "8", "3", "6">>,
     <<"7", "1", "1", "4">>}

InferFrames == {<<p, Txt7, Txt101_3, Txt18_3>> : p \in InferProducts}

NextInfer ==
    \/ Connect(ConnectPort, ConnectIO("none", <<"%">>, <<>>, <<>>))
    \/ \E f \in InferFrames : ParseFrame(ConnectPort, f)

SpecInfer == InitConnect /\ [][NextInfer]_vars

(***************************************************************************)
(* The session of the GUI: connect, start streaming, stop, disconnect, and *)
(* the reader threads it starts.  Handles and threads are numbered in the  *)
(* order of their creation: sensors and reader are sequences here.         *)
(***************************************************************************)
\* Handles constructed by the connect worker in one run.
MaxConnects == 2

\* Reader threads started in one run.
MaxThreads == 2

SessionPort == "COM1"

\* What the connect() of the session meets: the port does not open, a call
\* on the opened port raises, silence, a wake response only, an oxygen frame.
SessionConnectInputs ==
    {ConnectIO("open", <<>>, <<>>, <<>>),
     ConnectIO("io", <<>>, <<>>, <<>>),
     ConnectIO("none", <<>>, <<>>, <<>>),
     ConnectIO("none", <<"%">>, <<>>, <<>>),
     ConnectIO("none", <<>>, WireLine(OxygenFrame) \o CRLF, <<>>)}

\* What a read of a reader thread of the session returns.
SessionChunks == {<<>>, WireLine(OxygenFrame) \o CRLF}

\* The GUI constructed, its table holding one row for SessionPort.
InitSession ==
    /\ sensors = <<>>
    /\ reader = <<>>
    /\ event_queue = <<>>
    /\ written = [p \in {SessionPort} |-> <<>>]
    /\ stop_event = FALSE
    /\ now = 0
    /\ reads = 0
    /\ wire = [p \in {SessionPort} |-> <<>>]
    /\ frames_in = <<>>
    /\ data_frame = <<>>
    /\ parsed_frame = <<>>
    /\ decoded = EmptyDict
    /\ dpc = 0
    /\ tree = [p \in {SessionPort} |->
                  [name |-> TxtUnknown, sensor_type |-> "unknown",
                   product |-> <<>>, serial |-> <<>>]]
    /\ latest_salinity_psu = <<>>
    /\ latest_salinity_at = <<>>
    /\ latest_pressure = <<>>
    /\ latest_pressure_at = <<>>
    /\ latest_pressure_kpa_by_port = EmptyDict
    /\ pressure_sensor_id_by_port = EmptyDict
    /\ pressure_air_kpa_by_sensor = EmptyDict
    /\ state_file = EmptyDict
    /\ delivered = <<>>
    /\ drains = 0
    /\ drain_armed = TRUE
    /\ files = NoFiles
    /\ save = NotSaving
    /\ NoSession

\* The elements of a sequence.
Elements(seq) == {seq[i] : i \in 1..Len(seq)}

\* `if sensor.serial_port:` -- a Serial object, open or closed, is truthy;
\* only None is not.
HasPortObject(self) == self.serial_port # "none"

\* _connect_sensors with its worker and done(): for the row of the table a
\* handle is constructed and connect() called, again (up to 3 times) while
\* serial_port is None -- attempts that leave the handle as constructed, so
\* that io stands for the last attempt; the handle is kept if it has a port
\* object, whatever connect() returned.
_connect_sensors(io) ==
    /\ gui_pc = "idle"
    /\ _sensors = <<>>
    /\ Len(sensors) < MaxConnects
    /\ LET p == SessionPort
           out == connect(NewSensor(p, tree[p].name, tree[p].sensor_type), io)
       IN /\ sensors' = Append(sensors, out.sensor)
          /\ written' = [written EXCEPT ![p] = @ \o Stamped(out.writes, now)]
          /\ connect_log' = Append(connect_log,
                                   ConnectRecord(NewSensor(p, tree[p].name, tree[p].sensor_type),
                                                 io, out))
          /\ _sensors' = IF HasPortObject(out.sensor) THEN <<Len(sensors) + 1>> ELSE <<>>
    /\ UNCHANGED <<reader, event_queue, stop_event, now, reads, wire>>
    /\ UNCHANGED <<_threads, queue_id, gui_pc>>
    /\ UNCHANGED <<decodeVars, guiVars>>

\* threading.Thread(target=_reader_loop, args=(sensor, queue, stop_event)),
\* started and about to run the first line of _reader_loop.
ThreadStarted(sensor, out_queue) ==
    [pc |-> "enter", sensor |-> sensor, out_queue |-> out_queue,
     buffer |-> <<>>, last_frame |-> 0, last_nudge |-> 0, last_do |-> 0]

\* s.serial_port.write(b"Start\r\n") for every kept handle; on a closed port
\* the write raises and is passed over.
StartWrites(p) ==
    IF \E i \in 1..Len(_sensors) :
           sensors[_sensors[i]].com_port = p /\ sensors[_sensors[i]].serial_port = "open"
    THEN Stamped(<<"Start\r\n">>, now)
    ELSE <<>>

\* Mutant of AcrossStart: a new stream starts without a latest value.
ResetAtStart(latest) == <<>>

\* A latest value of the cross-sensor context across _start_streaming: the
\* handler assigns _stop_event, _event_queue, _threads, _stream_started_at
\* and _last_event_at, nothing else.
AcrossStart(latest) == latest

\* _start_streaming: the stop signal cleared, a new queue, "Start" written,
\* one reader thread started for every handle of self._sensors.
_start_streaming ==
    /\ gui_pc = "idle"
    /\ _threads = <<>>
    /\ _sensors # <<>>
    /\ Len(reader) + Len(_sensors) <= MaxThreads
    /\ stop_event' = FALSE
    /\ queue_id' = queue_id + 1
    /\ event_queue' = <<>>
    /\ written' = [p \in DOMAIN written |-> written[p] \o StartWrites(p)]
    /\ reader' = reader \o [i \in 1..Len(_sensors) |-> ThreadStarted(_sensors[i], queue_id + 1)]
    /\ _threads' = [i \in 1..Len(_sensors) |-> Len(reader) + i]
    /\ latest_salinity_psu' = AcrossStart(latest_salinity_psu)
    /\ latest_pressure' = AcrossStart(latest_pressure)
    /\ UNCHANGED <<sensors, now, reads, wire>>
    /\ UNCHANGED <<_sensors, gui_pc, connect_log>>
    /\ UNCHANGED decodeVars
    /\ UNCHANGED <<tree, latest_salinity_at, latest_pressure_at, latest_pressure_kpa_by_port,
                   pressure_sensor_id_by_port, pressure_air_kpa_by_sensor, state_file,
                   delivered, drains, drain_armed, files, save>>

\* The GUI thread sets the stop signal and goes into `for t in self._threads:
\* t.join(timeout=1.0)`; handler names the handler it is in.
BeginJoin(handler) ==
    /\ gui_pc = "idle"
    /\ _threads # <<>>
    /\ stop_event' = TRUE
    /\ gui_pc' = handler
    /\ UNCHANGED <<sensors, reader, event_queue, written, now, reads, wire>>
    /\ UNCHANGED <<_sensors, _threads, queue_id, connect_log>>
    /\ UNCHANGED <<decodeVars, guiVars>>

\* for s in self._sensors: s.disconnect()
DisconnectAll ==
    [h \in DOMAIN sensors |->
        IF h \in Elements(_sensors) THEN disconnect(sensors[h]) ELSE sensors[h]]

\* _stop_streaming up to its joins.
_stop_streaming == BeginJoin("_stop_streaming")

\* The joins of _stop_streaming have returned, each because its thread has
\* ended or because 1.0 s have passed; the threads are not asked which:
\* self._threads = [].
StopStreamingJoined ==
    /\ gui_pc = "_stop_streaming"
    /\ _threads' = <<>>
    /\ gui_pc' = "idle"
    /\ UNCHANGED <<sensors, reader, event_queue, written, stop_event, now, reads, wire>>
    /\ UNCHANGED <<_sensors, queue_id, connect_log>>
    /\ UNCHANGED <<decodeVars, guiVars>>

\* _disconnect_sensors while streaming: it calls _stop_streaming first.
_disconnect_sensors == BeginJoin("_disconnect_sensors")

\* _stop_and_disconnect up to its joins (called while streaming).
_stop_and_disconnect == BeginJoin("_stop_and_disconnect")

\* The rest of _disconnect_sensors and of _stop_and_disconnect once the joins
\* have returned (and, in _disconnect_sensors, 0.5 s more have passed), or
\* the whole of _disconnect_sensors when nothing is streaming: every kept
\* handle is disconnected, self._threads and self._sensors are emptied.
DisconnectJoined ==
    /\ \/ gui_pc \in {"_disconnect_sensors", "_stop_and_disconnect"}
       \/ gui_pc = "idle" /\ _threads = <<>> /\ _sensors # <<>>
    /\ sensors' = DisconnectAll
    /\ _threads' = <<>>
    /\ _sensors' = <<>>
    /\ gui_pc' = "idle"
    /\ UNCHANGED <<reader, event_queue, written, stop_event, now, reads, wire>>
    /\ UNCHANGED <<queue_id, connect_log>>
    /\ UNCHANGED <<decodeVars, guiVars>>

NextSession ==
    \/ \E io \in SessionConnectInputs : _connect_sensors(io)
    \/ _start_streaming
    \/ _stop_streaming
    \/ StopStreamingJoined
    \/ _disconnect_sensors
    \/ _stop_and_disconnect
    \/ DisconnectJoined
    \/ \E th \in DOMAIN reader :
           ReaderEnter(th) /\ UNCHANGED <<decodeVars, guiVars, sessionVars>>
    \/ \E th \in DOMAIN reader :
           ReaderTest(th) /\ UNCHANGED <<decodeVars, guiVars, sessionVars>>
    \/ \E th \in DOMAIN reader : \E chunk \in SessionChunks :
           ReaderRead(th, chunk) /\ UNCHANGED <<decodeVars, guiVars, sessionVars>>
    \/ \E th \in DOMAIN reader : \E wok \in BOOLEAN :
           ReaderProcess(th, wok) /\ UNCHANGED <<decodeVars, guiVars, sessionVars>>
    \/ \E th \in DOMAIN reader :
           ReaderReadFails(th) /\ UNCHANGED <<decodeVars, guiVars, sessionVars>>
    \/ \E th \in DOMAIN reader :
           ReaderExit(th) /\ UNCHANGED <<decodeVars, guiVars, sessionVars>>

SpecSession == InitSession /\ [][NextSession]_vars

(***************************************************************************)
(* config_manager.py: save_state and load_state, step by step, with the    *)
(* process ending at any step and the GUI constructed again                *)
(***************************************************************************)
TxtBaselineKey ==
    <<"p", "r", "e", "s", "s", "u", "r", "e", "_", "a", "i", "r", "_", "k", "p", "a", "_", "b", "y", "_", "s", "e", "n", "s", "o", "r">>

\* json's text of a string and of a positive float.
JsonString(text) == <<"\"">> \o text \o <<"\"">>

JsonFloat(x) ==
    NatText(x \div Milli) \o <<".">>
    \o (IF x % Milli = 0 THEN <<"0">> ELSE RStripChar(PadText(x % Milli, 3), "0"))

RECURSIVE ItemChunks(_, _)
\* The chunks of the items of the dict d, the first of them or a later one.
ItemChunks(d, first) ==
    IF DOMAIN d = {} THEN <<>>
    ELSE LET k == CHOOSE k \in DOMAIN d : TRUE
         IN <<(IF first THEN <<>> ELSE <<",">>) \o <<"\n", " ", " ", " ", " ">>,
              JsonString(k), <<":", " ">>, JsonFloat(d[k])>>
            \o ItemChunks([j \in DOMAIN d \ {k} |-> d[j]], FALSE)

\* The chunks json.dump(..., indent=2) writes for a dict of baselines.
DictChunks(d) ==
    IF DOMAIN d = {} THEN <<<<"{", "}">>>>
    ELSE <<<<"{">>>> \o ItemChunks(d, TRUE) \o <<<<"\n", " ", " ">>, <<"}">>>>

\* json.dump({"pressure_air_kpa_by_sensor": d}, f, indent=2): the chunks it
\* writes, in order.
json_dump(d) ==
    <<<<"{">>, <<"\n", " ", " ">>, JsonString(TxtBaselineKey), <<":", " ">>>>
    \o DictChunks(d) \o <<<<"\n">>, <<"}">>>>

\* The baseline maps the handlers save: the cleared map and the map after a
\* baseline was set in air or in the tank.
SavedBaselines ==
    {EmptyDict, [k \in {PressureSensorId} |-> StdAtmosphere],
     [k \in {PressureSensorId} |-> 111300]}

\* json.load(f) of a text: <<the payload's map>> for the complete text of a
\* payload, None (<<>>, an exception in the source) for anything else.
json_load(text) ==
    IF \E d \in SavedBaselines : JoinChunks(json_dump(d)) = text
    THEN <<CHOOSE d \in SavedBaselines : JoinChunks(json_dump(d)) = text>>
    ELSE <<>>

\* load_state() and the baselines __init__ takes from it: {} for a missing
\* file and for a file json.load rejects.
load_state(dir) ==
    IF dir[StatePath] = <<>> THEN EmptyDict
    ELSE IF json_load(dir[StatePath][1]) = <<>> THEN EmptyDict
    ELSE json_load(dir[StatePath][1])[1]

\* Mutant of TmpOf: save_state writes the state file in place.
InPlace(path) == path

\* tmp = path.with_suffix(path.suffix + ".tmp")
TmpOf(path) == TmpPath

\* A handler has assigned the baseline map d and calls save_state with it;
\* path.parent.mkdir(parents=True, exist_ok=True) leaves the files alone.
SaveBegin(d) ==
    /\ save.pc = "idle"
    /\ pressure_air_kpa_by_sensor' = d
    /\ save' = [pc |-> "open", payload |-> <<d>>, prev |-> files[StatePath], todo |-> <<>>]
    /\ UNCHANGED files

\* with tmp.open("w", encoding="utf-8") as f: the file is created or cut to
\* nothing.
SaveOpen ==
    /\ save.pc = "open"
    /\ files' = [files EXCEPT ![TmpOf(StatePath)] = <<<<>>>>]
    /\ save' = [save EXCEPT !.pc = "write", !.todo = json_dump(save.payload[1])]
    /\ UNCHANGED pressure_air_kpa_by_sensor

\* json.dump writes its next chunk.
SaveWrite ==
    /\ save.pc = "write"
    /\ save.todo # <<>>
    /\ files' = [files EXCEPT ![TmpOf(StatePath)] = <<@[1] \o Head(save.todo)>>]
    /\ save' = [save EXCEPT !.todo = Tail(@)]
    /\ UNCHANGED pressure_air_kpa_by_sensor

\* The with block ends: the file is closed.
SaveClose ==
    /\ save.pc = "write"
    /\ save.todo = <<>>
    /\ save' = [save EXCEPT !.pc = "replace"]
    /\ UNCHANGED <<files, pressure_air_kpa_by_sensor>>

\* os.replace(src, dst): dst gets the text of src in one step and src is gone
\* (nothing happens when they are the same file).
Replaced(dir, src, dst) ==
    IF src = dst THEN dir ELSE [dir EXCEPT ![dst] = dir[src], ![src] = <<>>]

\* tmp.replace(path); return path
SaveReplace ==
    /\ save.pc = "replace"
    /\ files' = Replaced(files, TmpOf(StatePath), StatePath)
    /\ save' = [save EXCEPT !.pc = "idle"]
    /\ UNCHANGED pressure_air_kpa_by_sensor

\* The process ends inside save_state: the files stay as they are.
SaveCrash ==
    /\ save.pc \in {"open", "write", "replace"}
    /\ save' = [save EXCEPT !.pc = "crashed", !.todo = <<>>]
    /\ UNCHANGED <<files, pressure_air_kpa_by_sensor>>

\* The GUI is constructed again: __init__ takes the baselines of load_state.
Restart ==
    /\ save.pc = "crashed"
    /\ pressure_air_kpa_by_sensor' = load_state(files)
    /\ save' = [save EXCEPT !.pc = "idle"]
    /\ UNCHANGED files

\* What a step of save_state leaves alone; state_file is what load_state
\* makes of the state file.
SaveFrame ==
    /\ state_file' = load_state(files')
    /\ UNCHANGED <<readerVars, decodeVars, sessionVars>>
    /\ UNCHANGED <<tree, latest_salinity_psu, latest_salinity_at, latest_pressure,
                   latest_pressure_at, latest_pressure_kpa_by_port,
                   pressure_sensor_id_by_port, delivered, drains, drain_armed>>

NextSave ==
    \/ \E d \in SavedBaselines : SaveBegin(d) /\ SaveFrame
    \/ SaveOpen /\ SaveFrame
    \/ SaveWrite /\ SaveFrame
    \/ SaveClose /\ SaveFrame
    \/ SaveReplace /\ SaveFrame
    \/ SaveCrash /\ SaveFrame
    \/ Restart /\ SaveFrame

SpecSave == InitSession /\ [][NextSave]_vars

(***************************************************************************)
(* The session with its consumer: the operations of the session on a port  *)
(* that answers the wake sequence and carries conductivity and pressure    *)
(* frames, the drain pass and the baseline handlers                        *)
(***************************************************************************)
\* What connect() meets: a wake response only (soft connect).
LifecycleConnectInputs == {ConnectIO("none", <<"%">>, <<>>, <<>>)}

\* What a read returns.
LifecycleChunks ==
    {WireLine(ConductivityFrame3) \o CRLF, WireLine(PressureFrame) \o CRLF}

\* The steps of the reader thread th; on a closed port, and only there, the
\* read and the writes raise.
ReaderThread(th) ==
    \/ ReaderEnter(th)
    \/ ReaderTest(th)
    \/ \E chunk \in LifecycleChunks : ReaderRead(th, chunk)
    \/ ReaderProcess(th, sensors[HandleOf(th)].serial_port = "open")
    \/ sensors[HandleOf(th)].serial_port # "open" /\ ReaderReadFails(th)
    \/ ReaderExit(th)

\* Mutant of LeftByReader: the reader thread publishes the context itself.
PublishedByReader(latest) == IF latest = <<>> THEN <<0>> ELSE <<>>

\* A field of the cross-sensor context after a step of a reader thread:
\* _reader_loop has the handle, the queue and the stop signal, and no
\* reference to the GUI.
LeftByReader(latest) == latest

\* What a step of a reader thread leaves alone.
ReaderFrame ==
    /\ latest_salinity_psu' = LeftByReader(latest_salinity_psu)
    /\ latest_pressure' = LeftByReader(latest_pressure)
    /\ UNCHANGED <<tree, latest_salinity_at, latest_pressure_at, latest_pressure_kpa_by_port,
                   pressure_sensor_id_by_port, pressure_air_kpa_by_sensor, state_file,
                   delivered, drains, drain_armed, files, save>>
    /\ UNCHANGED <<decodeVars, sessionVars>>

NextLifecycle ==
    \/ \E io \in LifecycleConnectInputs : _connect_sensors(io)
    \/ _start_streaming
    \/ _stop_streaming
    \/ StopStreamingJoined
    \/ _disconnect_sensors
    \/ _stop_and_disconnect
    \/ DisconnectJoined
    \/ \E th \in DOMAIN reader : ReaderThread(th) /\ ReaderFrame
    \/ _drain_events
    \/ _tutorial_and_set_pressure_baseline
    \/ _clear_pressure_baseline

SpecLifecycle == InitSession /\ [][NextLifecycle]_vars

(***************************************************************************)
(* Properties of the decode pipeline (SpecDecode)                          *)
(***************************************************************************)
\* A valid frame in the words of the specification: the first field starts
\* with 4 digits, and the second field starts with a digit or the frame has
\* at least 3 fields.
StartsWithDigits(text, n) == Len(text) >= n /\ \A i \in 1..n : IsDigit(text[i])

ValidFrame(f) ==
    /\ Len(f) >= 1
    /\ StartsWithDigits(f[1], 4)
    /\ \/ Len(f) >= 2 /\ StartsWithDigits(f[2], 1)
       \/ Len(f) >= 3

ExplicitErrorFrame(f) ==
    /\ Len(f) >= 2
    /\ f[1] = TxtStar
    /\ Upper(f[2]) = TxtERROR

\* C2: _pick_best_data_frame returns the last valid frame of the batch, never
\* an earlier valid frame and never an explicit error frame, and returns
\* nothing when the batch has no valid frame.
C2_LastValidFrameWins ==
    dpc >= 1 =>
        LET valid == {i \in 1..Len(frames_in) : ValidFrame(frames_in[i])}
        IN /\ valid = {} => data_frame = <<>>
           /\ valid # {} =>
                 /\ data_frame = frames_in[CHOOSE i \in valid : \A j \in valid : j <= i]
                 /\ ~ExplicitErrorFrame(data_frame)

\* A batch of two different valid frames was given, and the second came back.
C2_Witness ==
    /\ dpc >= 1
    /\ frames_in = <<OxygenFrame, PressureFrame>>
    /\ data_frame = PressureFrame

\* C3: for a frame with at least 2 fields and N value fields the mapping
\* returned by parse_tab_frame holds Value1..ValueN, verbatim, and no ValueK
\* for K > N, whatever the sensor type and the overlay.
C3_RawValuesPreserved ==
    (dpc >= 2 /\ Len(parsed_frame) >= 2) =>
        LET n == Len(parsed_frame) - 2
        IN \A k \in 1..Len(ValueKeyNames) :
               IF k <= n
               THEN /\ ValueKey(k) \in DOMAIN decoded
                    /\ decoded[ValueKey(k)] = parsed_frame[k + 2]
               ELSE ValueKey(k) \notin DOMAIN decoded

\* An oxygen frame of 3 values was decoded with the overlay applied.
C3_Witness ==
    /\ dpc >= 2
    /\ parsed_frame = OxygenFrame
    /\ "O2Saturation" \in DOMAIN decoded
    /\ decoded["Value3"] = Txt18_3

(***************************************************************************)
(* Properties of the reader loop (SpecReader)                              *)
(***************************************************************************)
ErrorThenOxygenChunk ==
    WireLine(ErrorFrame) \o CRLF \o WireLine(OxygenFrame) \o CRLF

\* A line as the device sends an error: `*<TAB>ERROR<TAB>...`
DeviceErrorLine(line) == StartsWith(line, <<"*", TAB, "E", "R", "R", "O", "R", TAB>>)

\* C1: a first read that delivers an error line and then a valid oxygen line,
\* both terminated, gives exactly one event, decoded from the oxygen line; and
\* no event ever comes from an error line.
C1_MalformedFrameTolerance ==
    /\ (/\ wire[ReaderPort] = <<ErrorThenOxygenChunk>>
        /\ reader[ReaderPort].pc = "test") =>
            /\ Len(event_queue) = 1
            /\ event_queue[1].raw_line = WireLine(OxygenFrame)
            /\ DictGet(event_queue[1].measurements, "O2Concentration") = <<Txt210_5>>
            /\ DictGet(event_queue[1].measurements, "O2Saturation") = <<Txt98_2>>
            /\ DictGet(event_queue[1].measurements, "Temperature") = <<Txt18_3>>
    /\ \A i \in 1..Len(event_queue) : ~DeviceErrorLine(event_queue[i].raw_line)

\* The read of the error line and the oxygen line was processed.
C1_Witness ==
    /\ wire[ReaderPort] = <<ErrorThenOxygenChunk>>
    /\ reader[ReaderPort].pc = "test"
    /\ Len(event_queue) = 1

\* A non-empty buffer of noise characters only, without a tab.
PureNoise(buffer) ==
    /\ buffer # <<>>
    /\ \A i \in 1..Len(buffer) :
           buffer[i] \in {"%", ";", "!", "*", CR, LF, " ", XON, XOFF}

\* The step of the reader of port p from the end of its read to the loop test.
ProcessStep(p) == reader[p].pc = "process" /\ reader'[p].pc = "test"

\* C9: when the buffer after a read is non-empty pure noise without a tab, the
\* same iteration resets it to empty and emits no event.
C9_NoiseBufferCollapse ==
    [][(ProcessStep(ReaderPort) /\ PureNoise(reader[ReaderPort].buffer)) =>
           /\ reader'[ReaderPort].buffer = <<>>
           /\ event_queue' = event_queue]_vars

\* Noise was read into an empty buffer and the iteration has ended.
C9_Witness ==
    /\ wire[ReaderPort] = <<<<"!", "*", XON, CR, LF, " ", ";", XOFF, "%">>>>
    /\ reader[ReaderPort].pc = "test"
    /\ reader[ReaderPort].buffer = <<>>
    /\ event_queue = <<>>

\* The selector accepts the line and the decoder decodes it.
LineAccepted(line) ==
    /\ Strip(line) # <<>>
    /\ _pick_best_data_frame(_extract_tab_frames(line)) # <<>>

\* C10: in the normal path every complete line that is accepted gives exactly
\* one event, in line order; rejected lines give none; the trailing
\* unterminated segment is the new buffer.
C10_OneEventPerAcceptedFrame ==
    [][(/\ ProcessStep(ReaderPort)
        /\ HasTerminator(reader[ReaderPort].buffer)
        /\ ~PureNoise(reader[ReaderPort].buffer)) =>
           LET lines == SplitOn(reader[ReaderPort].buffer, {CR, LF})
               complete == SubSeq(lines, 1, Len(lines) - 1)
               accepted == SelectSeq(complete, LineAccepted)
               n == Len(event_queue)
           IN /\ Len(event_queue') = n + Len(accepted)
              /\ SubSeq(event_queue', 1, n) = event_queue
              /\ \A k \in 1..Len(accepted) :
                     /\ event_queue'[n + k].raw_line = accepted[k]
                     /\ event_queue'[n + k].measurements["ProductNumber"]
                            = _extract_tab_frames(accepted[k])[1][1]
              /\ reader'[ReaderPort].buffer = lines[Len(lines)]]_vars

\* One read held three accepted lines and an unterminated rest: three events
\* came out, in line order, and the rest is the buffer.
C10_Witness ==
    /\ Len(wire[ReaderPort]) = 1
    /\ reader[ReaderPort].pc = "test"
    /\ Len(event_queue) = 3
    /\ event_queue[1].raw_line = WireLine(OxygenFrame)
    /\ event_queue[2].raw_line = WireLine(ConductivityFrame2)
    /\ event_queue[3].raw_line = WireLine(PressureFrame)
    /\ reader[ReaderPort].buffer = WireLine(<<Txt4330, Txt55>>)

\* C11: a reader loop that has been entered leaves (reaches "done") only in a
\* step taken at the loop test with the stop signal set; and a read that
\* raises puts the thread back at the loop test with its locals as they were,
\* so the loop goes on after an exception.
C11_LoopSurvivesExceptions ==
    [][\A th \in DOMAIN reader :
          /\ (reader[th].pc # "done" /\ reader'[th].pc = "done") =>
                 (stop_event /\ reader[th].pc = "test")
          /\ (reader[th].pc = "read" /\ reader'[th].pc \notin {"read", "process"}) =>
                 reader'[th] = [reader[th] EXCEPT !.pc = "test"]]_vars

\* The first iteration ended by an exception before any chunk was returned, the
\* stop signal is clear, and the loop has begun its second iteration.
C11_Witness ==
    /\ reads = 2
    /\ wire[ReaderPort] = <<>>
    /\ reader[ReaderPort].pc = "read"
    /\ ~stop_event

NewWrites(p) == SubSeq(written'[p], Len(written[p]) + 1, Len(written'[p]))

\* At the time now, more than d seconds have passed since the loop was entered
\* (at 0), since every earlier write of one of the byte strings in kinds to
\* the channel of p, and since every frame of p emitted before.
QuietFor(p, d, kinds) ==
    /\ now - 0 > d
    /\ \A i \in 1..Len(written[p]) :
           written[p][i].data \in kinds => now - written[p][i].at > d
    /\ \A i \in 1..Len(event_queue) :
           event_queue[i].com_port = p => now - event_queue[i].timestamp > d

\* C20: a step of the reader that writes the newline nudge is taken more than
\* 8 s after the loop start, after the last emitted frame and after the
\* previous nudge; one that writes the trigger pair ("Do", then "DO") more than
\* 25 s after the loop start, the last emitted frame and the previous trigger.
C20_NudgeRateLimits ==
    [][\A k \in 1..Len(NewWrites(ReaderPort)) :
          LET w == NewWrites(ReaderPort)[k]
          IN /\ w.at = now
             /\ w.data \in {"\r\n", "Do\r\n", "DO\r\n"}
             /\ w.data = "\r\n" => QuietFor(ReaderPort, NudgeAfter, {"\r\n"})
             /\ w.data = "Do\r\n" =>
                    /\ QuietFor(ReaderPort, TriggerAfter, {"Do\r\n", "DO\r\n"})
                    /\ k < Len(NewWrites(ReaderPort))
                    /\ NewWrites(ReaderPort)[k + 1].data = "DO\r\n"
             /\ w.data = "DO\r\n" =>
                    /\ k > 1
                    /\ NewWrites(ReaderPort)[k - 1].data = "Do\r\n"]_vars

\* No frame came: the iteration at 9 s wrote the nudge, and the next one, at
\* 26 s, wrote the nudge again and the trigger pair.
C20_Witness ==
    /\ event_queue = <<>>
    /\ written[ReaderPort] =
           Stamped(<<"\r\n">>, 9) \o Stamped(<<"\r\n", "Do\r\n", "DO\r\n">>, 26)

(***************************************************************************)
(* Properties of the derived-quantity engine (SpecEngine)                  *)
(***************************************************************************)
\* The measurements of the i-th event the drain has processed.
DeliveredFields(i) == delivered[i].event.measurements

\* A field of the i-th processed event: <<>> if absent, <<text>> otherwise.
Field(i, k) == DictGet(DeliveredFields(i), k)

\* The i-th processed event went through the conductivity branch and left a
\* derived salinity.
SetsSalinity(i) ==
    /\ delivered[i].st = "conductivity"
    /\ "Derived_Salinity_psu" \in DOMAIN DeliveredFields(i)

\* The salinity text of the last conductivity event before the i-th event
\* that established a salinity (<<>> if there is none).
SalinityEstablishedBefore(i) ==
    LET js == {j \in 1..(i - 1) : SetsSalinity(j)}
    IN IF js = {} THEN <<>>
       ELSE <<DeliveredFields(CHOOSE j \in js : \A k \in js : k <= j)["Derived_Salinity_psu"]>>

\* The i-th processed event is an oxygen event that got derived fields.
OxygenWithDerived(i) ==
    /\ delivered[i].st = "oxygen"
    /\ "Derived_O2Sol_umolL" \in DOMAIN DeliveredFields(i)

TxtZeroSalinity == <<"0", ".", "0", "0", "0">>

\* The solubility text of an oxygen event for the salinity s (thousandths).
ExpectedO2Sol(i, s) ==
    Fixed2(_o2_sol_umol_per_l_weiss1970(
               _to_float(DictGet(DeliveredFields(i), "Temperature"))[1], s))

\* C4: an oxygen event that gets derived fields while no conductivity event
\* has established a salinity carries Derived_Salinity_assumed = "True" and
\* is computed with salinity 0; an oxygen event processed after a
\* conductivity event established a salinity is computed with that salinity
\* and carries no assumed flag.
C4_OxygenAssumedSalinityFlag ==
    \A i \in 1..Len(delivered) :
        delivered[i].st = "oxygen" =>
            IF SalinityEstablishedBefore(i) = <<>>
            THEN OxygenWithDerived(i) =>
                     /\ "Derived_Salinity_assumed" \in DOMAIN DeliveredFields(i)
                     /\ Field(i, "Derived_Salinity_assumed") = <<TxtTrue>>
                     /\ Field(i, "Derived_Salinity_psu") = <<TxtZeroSalinity>>
                     /\ Field(i, "Derived_O2Sol_umolL") = <<ExpectedO2Sol(i, 0)>>
            ELSE /\ "Derived_Salinity_assumed" \notin DOMAIN DeliveredFields(i)
                 /\ OxygenWithDerived(i) =>
                        /\ Field(i, "Derived_Salinity_psu") = SalinityEstablishedBefore(i)
                        /\ Field(i, "Derived_O2Sol_umolL")
                               = <<ExpectedO2Sol(i, _to_float(SalinityEstablishedBefore(i))[1])>>

\* An oxygen event was derived after a conductivity event established the
\* salinity 29.500, in a later pass than that event.
C4_Witness ==
    \E i \in 1..Len(delivered) :
        /\ OxygenWithDerived(i)
        /\ SalinityEstablishedBefore(i) = <<<<"2", "9", ".", "5", "0", "0">>>>
        /\ delivered[i].pass = 2
        /\ "Derived_Salinity_assumed" \notin DOMAIN DeliveredFields(i)

\* The i-th processed event is a pressure event with a parsable Pressure.
PressureParsed(i) ==
    /\ delivered[i].st = "pressure"
    /\ _to_float(DictGet(DeliveredFields(i), "Pressure")) # <<>>

\* The sensor identity of the i-th event: product_SN_serial.
SensorIdentity(i) ==
    DeliveredFields(i)["ProductNumber"] \o <<"_", "S", "N", "_">>
        \o DeliveredFields(i)["SerialNumber"]

\* The baseline map had an entry for the i-th event's sensor when the event
\* was processed.
HadBaseline(i) == SensorIdentity(i) \in DOMAIN delivered[i].found.pressure_air_kpa_by_sensor

\* C5: for every pressure event with a parsable Pressure,
\* Derived_SeaPressure_dbar and Derived_Depth_m are both absent when the
\* baseline map has no entry for the event's sensor identity and both
\* present when it has one.
C5_DepthRequiresBaseline ==
    \A i \in 1..Len(delivered) :
        PressureParsed(i) =>
            /\ HadBaseline(i) <=> "Derived_SeaPressure_dbar" \in DOMAIN DeliveredFields(i)
            /\ HadBaseline(i) <=> "Derived_Depth_m" \in DOMAIN DeliveredFields(i)

\* One pressure event was processed without a baseline and a later one with.
C5_Witness ==
    \E i, j \in 1..Len(delivered) :
        /\ i < j
        /\ PressureParsed(i) /\ ~HadBaseline(i)
        /\ "Derived_Depth_m" \notin DOMAIN DeliveredFields(i)
        /\ PressureParsed(j) /\ HadBaseline(j)
        /\ "Derived_Depth_m" \in DOMAIN DeliveredFields(j)

\* The baseline the i-th event found for its sensor, and its pressure.
BaselineOf(i) == delivered[i].found.pressure_air_kpa_by_sensor[SensorIdentity(i)]

PressureOf(i) == _to_float(DictGet(DeliveredFields(i), "Pressure"))[1]

\* text is the number x (thousandths) with three decimals followed by unit.
IsQuantityText(text, x, unit) ==
    /\ Len(text) > Len(unit) + 4
    /\ SubSeq(text, Len(text) - Len(unit) + 1, Len(text)) = unit
    /\ text[Len(text) - Len(unit) - 3] = "."
    /\ _to_float(<<SubSeq(text, 1, Len(text) - Len(unit))>>) = <<x>>

\* The field (<<>> if absent) holds the number x followed by unit.
IsQuantity(field, x, unit) == field # <<>> /\ IsQuantityText(field[1], x, unit)

\* C6: with baseline B stored for a sensor, an event of that sensor with
\* pressure P has Derived_SeaPressure_dbar = (P - B)/10 and Derived_Depth_m
\* the same number, negative when P < B; B = 101.3 and P = 111.3 give 1.0.
C6_PressureBaselineRoundTrip ==
    \A i \in 1..Len(delivered) :
        (PressureParsed(i) /\ HadBaseline(i)) =>
            /\ (PressureOf(i) - BaselineOf(i)) % 10 = 0
            /\ IsQuantity(Field(i, "Derived_SeaPressure_dbar"),
                          (PressureOf(i) - BaselineOf(i)) \div 10, UnitDbar)
            /\ IsQuantity(Field(i, "Derived_Depth_m"),
                          (PressureOf(i) - BaselineOf(i)) \div 10, UnitM)
            /\ (BaselineOf(i) = 101300 /\ PressureOf(i) = 111300) =>
                   /\ Field(i, "Derived_SeaPressure_dbar")
                          = <<<<"1", ".", "0", "0", "0", " ", "d", "b", "a", "r">>>>
                   /\ Field(i, "Derived_Depth_m") = <<<<"1", ".", "0", "0", "0", " ", "m">>>>

\* The baseline 101.3 kPa was stored from the stream and an event with
\* 111.3 kPa was processed after it.
C6_Witness ==
    \E i \in 1..Len(delivered) :
        /\ PressureParsed(i) /\ HadBaseline(i)
        /\ BaselineOf(i) = 101300 /\ PressureOf(i) = 111300
        /\ state_file = pressure_air_kpa_by_sensor
        /\ "Derived_Depth_m" \in DOMAIN DeliveredFields(i)

\* The i-th processed event went through the conductivity branch.
ConductivityEvent(i) == delivered[i].st = "conductivity"

\* The parsed value of a field of the i-th event (<<>> if absent or no number).
FieldValue(i, k) == _to_float(DictGet(DeliveredFields(i), k))

\* The best-known pressure in dbar when the i-th event was processed.
BestKnownPressureDbar(i) ==
    IF delivered[i].found.latest_pressure = <<>> THEN 0
    ELSE _pressure_to_dbar(delivered[i].found.latest_pressure[1])

\* The PSS-78 salinity of the i-th event's conductivity and temperature at
\* the best-known pressure.
ComputedSalinity(i) ==
    _pss78_salinity_from_conductivity_ms_cm(FieldValue(i, "Conductivity")[1],
                                            FieldValue(i, "Temperature")[1],
                                            BestKnownPressureDbar(i))

\* The last processed event that established a salinity (0 if none).
LastSalinityEvent ==
    LET js == {j \in 1..Len(delivered) : SetsSalinity(j)}
    IN IF js = {} THEN 0 ELSE CHOOSE j \in js : \A k \in js : k <= j

\* C7: a conductivity event with a parsable Salinity field gets that stream
\* value as derived salinity; one without it but with parsable Conductivity
\* and Temperature gets PSS-78 of conductivity, temperature and the
\* best-known pressure (the latest pressure of any sensor in dbar, 0 if
\* none); the latest salinity is the derived salinity of the last such event.
C7_SalinityFallbackLaw ==
    /\ \A i \in 1..Len(delivered) :
           ConductivityEvent(i) =>
               IF FieldValue(i, "Salinity") # <<>>
               THEN FieldValue(i, "Derived_Salinity_psu") = FieldValue(i, "Salinity")
               ELSE (FieldValue(i, "Conductivity") # <<>> /\ FieldValue(i, "Temperature") # <<>>)
                        => FieldValue(i, "Derived_Salinity_psu") = ComputedSalinity(i)
    /\ LastSalinityEvent # 0 =>
           latest_salinity_psu = FieldValue(LastSalinityEvent, "Derived_Salinity_psu")

\* A conductivity event with a streamed salinity of 29.5 was processed, and
\* one without a streamed salinity got the PSS-78 value 28.608.
C7_Witness ==
    \E i, j \in 1..Len(delivered) :
        /\ ConductivityEvent(i)
        /\ FieldValue(i, "Salinity") = <<29500>>
        /\ Field(i, "Derived_Salinity_psu") = <<<<"2", "9", ".", "5", "0", "0">>>>
        /\ ConductivityEvent(j)
        /\ "Salinity" \notin DOMAIN DeliveredFields(j)
        /\ Field(j, "Derived_Salinity_psu") = <<<<"2", "8", ".", "6", "0", "8">>>>

\* The i-th and j-th processed events belong to one drain pass, i first, the
\* i-th establishing a salinity that no event between them replaces.
SamePassContext(i, j) ==
    /\ i < j
    /\ delivered[i].pass = delivered[j].pass
    /\ SetsSalinity(i)
    /\ \A k \in (i + 1)..(j - 1) : ~SetsSalinity(k)

\* The concentration text of an oxygen event for the salinity s.
ExpectedO2FromSat(j, s) ==
    Fixed2(MulMilli(RoundDiv(FieldValue(j, "O2Saturation")[1], 100),
                    _o2_sol_umol_per_l_weiss1970(FieldValue(j, "Temperature")[1], s)))

\* C8: when one drain pass processes a conductivity event that yields a
\* salinity and then an oxygen event, the oxygen event's derived
\* concentration is computed with that salinity and carries no assumed flag.
C8_SameDrainContextVisibility ==
    \A i, j \in 1..Len(delivered) :
        (SamePassContext(i, j) /\ delivered[j].st = "oxygen"
             /\ FieldValue(j, "Temperature") # <<>>) =>
            /\ "Derived_Salinity_assumed" \notin DOMAIN DeliveredFields(j)
            /\ Field(j, "Derived_Salinity_psu") = Field(i, "Derived_Salinity_psu")
            /\ FieldValue(j, "O2Saturation") # <<>> =>
                   Field(j, "Derived_O2_umolL_from_sat")
                       = <<ExpectedO2FromSat(j, FieldValue(i, "Derived_Salinity_psu")[1])>>

\* The first pass took a conductivity event (salinity 28.608 by PSS-78) and
\* then an oxygen event, with no salinity known before.
C8_Witness ==
    /\ Len(delivered) = 2
    /\ SamePassContext(1, 2)
    /\ delivered[1].found.latest_salinity_psu = <<>>
    /\ Field(1, "Derived_Salinity_psu") = <<<<"2", "8", ".", "6", "0", "8">>>>
    /\ delivered[2].st = "oxygen"
    /\ Field(2, "Derived_O2_umolL_from_sat") = <<<<"2", "4", "2", ".", "9", "9">>>>

(***************************************************************************)
(* Properties of connect() (SpecConnect)                                   *)
(***************************************************************************)
\* The frame the selector accepts from the text of a window (<<>>: none).
Accepted(window) == _pick_best_data_frame(_extract_tab_frames(DecodeAscii(window)))

\* The frame accepted from the first probe window, or else from the second.
AcceptedOfCall(c) ==
    IF Accepted(c.io.probe) # <<>> THEN Accepted(c.io.probe) ELSE Accepted(c.io.probe2)

\* The calls of connect() that opened the port and met no exception.
Completed(c) == c.io.error = "none"

\* C16: every call of connect() in which some byte arrived in the wake window
\* or in a probe window, and no frame was accepted, returns True and leaves
\* the handle connected with protocol_mode "unknown".
C16_SoftConnectOnAnyBytes ==
    \A i \in 1..Len(connect_log) :
        LET c == connect_log[i]
        IN (/\ Completed(c)
            /\ c.io.wake # <<>> \/ c.io.probe # <<>> \/ c.io.probe2 # <<>>
            /\ AcceptedOfCall(c) = <<>>) =>
               /\ c.ok
               /\ c.after.is_connected
               /\ c.after.protocol_mode = "unknown"

\* C17: every call of connect() in which no byte arrived in any of the three
\* windows returns False and leaves the port closed and the handle not
\* connected.
C17_FailedConnectCloses ==
    \A i \in 1..Len(connect_log) :
        LET c == connect_log[i]
        IN (/\ Completed(c)
            /\ c.io.wake = <<>> /\ c.io.probe = <<>> /\ c.io.probe2 = <<>>) =>
               /\ ~c.ok
               /\ c.after.serial_port = "closed"
               /\ ~c.after.is_connected

\* A call met three empty windows and the port of the handle is closed.
C17_Witness ==
    /\ connect_log # <<>>
    /\ connect_log[Len(connect_log)].io = ConnectIO("none", <<>>, <<>>, <<>>)
    /\ sensors[ConnectPort].serial_port = "closed"
    /\ ~sensors[ConnectPort].is_connected

\* C18: a call of connect() leaves protocol_mode "tab" exactly when the
\* selector accepts a frame from the first probe window or, failing that, from
\* the second; it then returns True with the handle connected, the product and
\* serial of that frame recorded, the name made of them, and the type set to
\* the inferred one unless that is "unknown" (then the type is kept).
C18_IdentifiedConnect ==
    \A i \in 1..Len(connect_log) :
        LET c == connect_log[i]
            f == AcceptedOfCall(c)
        IN /\ (c.after.protocol_mode = "tab") <=> (Completed(c) /\ f # <<>>)
           /\ (Completed(c) /\ f # <<>>) =>
                  /\ c.ok
                  /\ c.after.is_connected
                  /\ c.after.serial_port = "open"
                  /\ c.after.product_number = <<f[1]>>
                  /\ c.after.serial_number = <<f[2]>>
                  /\ c.after.name = SensorName(f[1], f[2])
                  /\ c.after.sensor_type =
                         IF _infer_sensor_type(f[1]) # "unknown"
                         THEN _infer_sensor_type(f[1])
                         ELSE c.before.sensor_type

\* A handle configured as oxygen met an error frame in the first probe window
\* and a pressure frame in the second: it is identified as the pressure sensor.
C18_Witness ==
    /\ connect_log # <<>>
    /\ connect_log[Len(connect_log)].before.sensor_type = "oxygen"
    /\ connect_log[Len(connect_log)].io.probe = WireLine(ErrorFrame) \o CRLF
    /\ connect_log[Len(connect_log)].io.probe2 = WireLine(PressureFrame) \o CRLF
    /\ sensors[ConnectPort].protocol_mode = "tab"
    /\ sensors[ConnectPort].sensor_type = "pressure"
    /\ sensors[ConnectPort].product_number = <<Txt4117B>>
    /\ sensors[ConnectPort].is_connected

(***************************************************************************)
(* Properties of the session (SpecSession)                                 *)
(***************************************************************************)
\* The reader threads that have been started and have not returned.
LiveReaders == {th \in DOMAIN reader : reader[th].pc # "done"}

\* C13: a step that closes the open port of a handle is taken only when every
\* reader thread of that handle has returned.
C13_TeardownOrdering ==
    [][\A h \in DOMAIN sensors :
          (sensors[h].serial_port = "open" /\ sensors'[h].serial_port = "closed") =>
              \A th \in DOMAIN reader : reader[th].sensor = h => reader[th].pc = "done"]_vars

\* C14: at no time do two live reader threads have handles on the same channel.
C14_ExclusiveChannelOwnership ==
    \A th1, th2 \in LiveReaders :
        sensors[reader[th1].sensor].com_port = sensors[reader[th2].sensor].com_port
            => th1 = th2

\* The call of connect() failed in one of the two ways of the claim: the port
\* could not be opened, or it was opened, no byte arrived and it was closed.
TransportFailure(c) ==
    /\ ~c.ok
    /\ \/ c.io.error = "open"
       \/ /\ c.io.error = "none"
          /\ c.io.wake = <<>> /\ c.io.probe = <<>> /\ c.io.probe2 = <<>>
          /\ c.after.serial_port = "closed"

\* C19: no reader thread is ever started for a handle whose connect() failed
\* in one of these ways (handle h was made by the h-th call recorded in
\* connect_log).
C19_NoReaderAfterFailedConnect ==
    \A th \in DOMAIN reader : ~TransportFailure(connect_log[reader[th].sensor])

(***************************************************************************)
(* Properties of the event queue (SpecEngine)                              *)
(***************************************************************************)
\* The lines a channel has carried, in the order its reader read them.
WireLinesOf(p) == SelectNonEmpty(SplitOn(JoinChunks(wire[p]), {CR, LF}))

\* The raw lines of the events of channel p in the order the consumer meets
\* them: those it has drained, then those waiting in the queue.
ConsumedLinesOf(p) ==
    LET evs == [i \in 1..Len(delivered) |-> delivered[i].event] \o event_queue
        idx == {i \in 1..Len(evs) : evs[i].com_port = p}
        nth(k) == CHOOSE i \in idx : Cardinality({j \in idx : j <= i}) = k
    IN [k \in 1..Cardinality(idx) |-> evs[nth(k)].raw_line]

RECURSIVE InOrderWithin(_, _)
\* The sequence part occurs within whole, in the same order.
InOrderWithin(part, whole) ==
    IF part = <<>> THEN TRUE
    ELSE IF whole = <<>> THEN FALSE
    ELSE IF Head(part) = Head(whole) THEN InOrderWithin(Tail(part), Tail(whole))
    ELSE InOrderWithin(part, Tail(whole))

FrameOfCall(c) ==
    IF c.io.error = "none" THEN ProbedFrame(c.io.probe, c.io.probe2) ELSE <<>>

\* The type of h after a step that processed the frame f is the type of f's
\* product when that is a known one, and the type h had otherwise.
TypeFollows(h, f) ==
    IF _infer_sensor_type(f[1]) # "unknown"
    THEN sensors'[h].sensor_type = _infer_sensor_type(f[1])
    ELSE sensors'[h].sensor_type = sensors[h].sensor_type

\* C21: a call of connect() that identifies a frame, and every call of
\* parse_tab_frame on a frame with a product and a serial number, leaves the
\* handle with the type inferred from the product when that type is known,
\* whatever type it was configured with, and with the type it had when the
\* product maps to unknown.
C21_InferredTypeAuthoritative ==
    [][/\ (Len(connect_log') = Len(connect_log) + 1
           /\ FrameOfCall(connect_log'[Len(connect_log')]) # <<>>) =>
              TypeFollows(ConnectPort, FrameOfCall(connect_log'[Len(connect_log')]))
       /\ (dpc' = dpc + 1 /\ Len(parsed_frame') >= 2) =>
              TypeFollows(ConnectPort, parsed_frame')]_vars

\* A handle configured as oxygen was identified by connect() as a pressure
\* sensor, then parsed an oxygen frame and a frame of an unknown product: its
\* type is oxygen, the last known inference.
C21_Witness ==
    /\ Len(connect_log) = 1
    /\ connect_log[1].before.sensor_type = "oxygen"
    /\ FrameOfCall(connect_log[1]) = PressureFrame
    /\ connect_log[1].after.sensor_type = "pressure"
    /\ dpc = 2
    /\ parsed_frame = UnknownProductFrame
    /\ sensors[ConnectPort].product_number = <<Txt9999>>
    /\ sensors[ConnectPort].sensor_type = "oxygen"

(***************************************************************************)
(* Properties of the cross-sensor context (SpecEngine)                     *)
(***************************************************************************)
\* C22: a drain pass leaves the map of stored air-pressure baselines as it
\* was, whatever events it processes; the map changes only in a step of the
\* set-baseline handler (to the map with the current samples assigned) or of
\* the clear-baseline handler (to the empty map).
C22_DrainNeverWritesBaselines ==
    [][/\ drains' # drains => pressure_air_kpa_by_sensor' = pressure_air_kpa_by_sensor
       /\ pressure_air_kpa_by_sensor' # pressure_air_kpa_by_sensor =>
              \/ pressure_air_kpa_by_sensor' = EmptyDict
              \/ pressure_air_kpa_by_sensor' =
                     AssignBaselines(BaselinePorts, pressure_air_kpa_by_sensor)]_vars

\* Passes have processed a pressure event with a parsable Pressure, a
\* conductivity event and no baseline has appeared.
C22_Witness ==
    /\ \E i \in 1..Len(delivered) : PressureParsed(i)
    /\ \E i \in 1..Len(delivered) : delivered[i].st = "conductivity"
    /\ pressure_air_kpa_by_sensor = EmptyDict
    /\ state_file = EmptyDict

\* The ports as the texts that stand in for a sensor id.
PortTexts == {PortText(p) : p \in EnginePorts}

\* The i-th and the j-th processed event are pressure events of one sensor
\* (same product and serial number) that came in on different channels.
SameSensorOtherChannel(i, j) ==
    /\ PressureParsed(i) /\ PressureParsed(j)
    /\ SensorIdentity(i) = SensorIdentity(j)
    /\ delivered[i].event.com_port # delivered[j].event.com_port

\* C23: the baseline map is keyed by product_SN_serial, never by a channel
\* name, and a pressure event whose product_SN_serial has a stored baseline
\* gets Derived_SeaPressure_dbar and Derived_Depth_m computed from that
\* baseline whatever channel it arrives on.
C23_BaselineKeyedByIdentity ==
    /\ \A k \in DOMAIN pressure_air_kpa_by_sensor : k \notin PortTexts
    /\ \A i \in 1..Len(delivered) :
           (PressureParsed(i) /\ HadBaseline(i)) =>
               /\ IsQuantity(Field(i, "Derived_PressureAir_kPa"), BaselineOf(i), UnitKPa)
               /\ IsQuantity(Field(i, "Derived_SeaPressure_dbar"),
                             (PressureOf(i) - BaselineOf(i)) \div 10, UnitDbar)
               /\ IsQuantity(Field(i, "Derived_Depth_m"),
                             (PressureOf(i) - BaselineOf(i)) \div 10, UnitM)

\* A sensor sent a pressure event on one channel while no baseline was
\* stored, the operator stored its baseline, and an event of the same sensor
\* on another channel got its depth from that baseline.
C23_Witness ==
    \E i, j \in 1..Len(delivered) :
        /\ i < j
        /\ SameSensorOtherChannel(i, j)
        /\ delivered[i].found.pressure_air_kpa_by_sensor = EmptyDict
        /\ HadBaseline(j)
        /\ BaselineOf(j) = PressureOf(i)
        /\ "Derived_Depth_m" \in DOMAIN DeliveredFields(j)

(***************************************************************************)
(* Properties of the context over the session (SpecLifecycle)              *)
(***************************************************************************)
\* C24: a step of connect, start-streaming, stop-streaming or disconnect
\* (the steps that change the session's own state) leaves the baseline map,
\* the latest salinity and the latest pressure as they were; and no step at
\* all takes a latest salinity or a latest pressure back to absent.
C24_ContextLifecycle ==
    [][/\ sessionVars' # sessionVars =>
              /\ pressure_air_kpa_by_sensor' = pressure_air_kpa_by_sensor
              /\ latest_salinity_psu' = latest_salinity_psu
              /\ latest_pressure' = latest_pressure
       /\ latest_salinity_psu # <<>> => latest_salinity_psu' # <<>>
       /\ latest_pressure # <<>> => latest_pressure' # <<>>]_vars

\* With a salinity, a pressure and a baseline in the context the sensor was
\* disconnected, connected again and streaming restarted: all three are
\* still there.
C24_Witness ==
    /\ Len(connect_log) = 2
    /\ queue_id = 3
    /\ _threads # <<>>
    /\ latest_salinity_psu = <<29500>>
    /\ latest_pressure = <<101300>>
    /\ pressure_air_kpa_by_sensor # EmptyDict

\* C25: a failure while computing a derived quantity only omits the derived
\* fields of that event: every pass of the drain delivers every event it
\* found queued, leaves the queue empty, and is scheduled again.
C25_DerivationFailuresAbsorbed ==
    [][drains' # drains =>
           /\ drain_armed'
           /\ event_queue' = <<>>
           /\ Len(delivered') = Len(delivered) + Len(event_queue)]_vars

\* The texts of the complete payloads.
CompleteTexts == {JoinChunks(json_dump(d)) : d \in SavedBaselines}

\* C26: at every point of save_state, and after the process ended at any of
\* its steps, the state file is missing (never saved yet) or holds the
\* complete text of a payload, and it is the text it held when the save
\* began or the text of the payload being saved; load_state reads one of the
\* two payloads accordingly.
C26_AtomicSave ==
    /\ files[StatePath] # <<>> => files[StatePath][1] \in CompleteTexts
    /\ save.payload # <<>> =>
           /\ files[StatePath] \in {save.prev, <<JoinChunks(json_dump(save.payload[1]))>>}
           /\ load_state(files) \in
                  {save.payload[1],
                   IF save.prev = <<>> THEN EmptyDict ELSE json_load(save.prev[1])[1]}

\* C26 witness: the process ended while the text of a new payload was partly
\* written, a complete text of another payload being in the state file.
C26_Witness ==
    /\ save.pc = "crashed"
    /\ files[TmpPath] # <<>>
    /\ files[TmpPath][1] # <<>>
    /\ files[TmpPath][1] \notin CompleteTexts
    /\ files[StatePath] # <<>>
    /\ load_state(files) # save.payload[1]
    /\ load_state(files) # EmptyDict

\* A step of a reader thread (the locals of a running thread change) or of
\* the connect worker (a call of connect() is made).
ThreadStep ==
    \/ \E th \in DOMAIN reader : reader'[th] # reader[th]
    \/ connect_log' # connect_log

\* The cross-sensor context.
CrossSensorContext ==
    <<latest_salinity_psu, latest_pressure, latest_pressure_kpa_by_port,
      pressure_air_kpa_by_sensor>>

\* C27: the cross-sensor context (latest salinity, latest pressure, latest
\* pressure per port, baseline map) is written only on the GUI thread: no
\* step of a reader thread or of the connect worker changes it, and every
\* step that changes it is a drain pass or a baseline handler.
C27_SingleWriter ==
    [][/\ ThreadStep => CrossSensorContext' = CrossSensorContext
       /\ CrossSensorContext' # CrossSensorContext =>
              \/ drains' # drains
              \/ state_file' # state_file]_vars

\* C27 witness: with a salinity in the context, a reader thread has queued a
\* further event.
C27_Witness ==
    /\ latest_salinity_psu # <<>>
    /\ event_queue # <<>>
    /\ \E th \in DOMAIN reader : reader[th].pc = "test" /\ reader[th].out_queue = queue_id

\* The table as the specification gives it: the type of a product by its
\* first four characters.
PressurePrefixes == {<<"4", "1", "1", "7">>, <<"5", "2", "1", "7">>, <<"5", "2", "1", "8">>}

OxygenPrefixes == {<<"4", "3", "3", "0">>, <<"4", "8", "3", "5">>, <<"4", "8", "3", "1">>}

ConductivityPrefixes == {<<"5", "8", "1", "9">>, <<"5", "9", "9", "0">>}

FirstFour(product) == SubSeq(product, 1, IF Len(product) < 4 THEN Len(product) ELSE 4)

TableType(product) ==
    IF FirstFour(product) \in PressurePrefixes THEN "pressure"
    ELSE IF FirstFour(product) \in OxygenPrefixes THEN "oxygen"
    ELSE IF FirstFour(product) \in ConductivityPrefixes THEN "conductivity"
    ELSE "unknown"

\* C28: _infer_sensor_type gives pressure exactly for products starting with
\* 4117, 5217 or 5218, oxygen exactly for 4330, 4835 or 4831, conductivity
\* exactly for 5819 or 5990, and unknown for every other text, the empty
\* (missing) product included; the handle that parsed the frame has the type
\* of the table whenever the table knows the product.
C28_PrefixTable ==
    /\ _infer_sensor_type(<<>>) = "unknown"
    /\ parsed_frame # <<>> =>
           /\ _infer_sensor_type(parsed_frame[1]) = TableType(parsed_frame[1])
           /\ TableType(parsed_frame[1]) # "unknown" =>
                  sensors[ConnectPort].sensor_type = TableType(parsed_frame[1])

\* C28 witness: a product longer than its prefix has been parsed after a
\* product the table does not know.
C28_Witness ==
    /\ dpc = 2
    /\ parsed_frame # <<>>
    /\ Len(parsed_frame[1]) > 4
    /\ TableType(parsed_frame[1]) = "oxygen"
    /\ sensors[ConnectPort].sensor_type = "oxygen"

\* The text the last call of _extract_tab_frames was given, before and after
\* a step.
LastText == wire[DecodePort][Len(wire[DecodePort])]

LastTextAfter == wire'[DecodePort][Len(wire'[DecodePort])]

\* A list of frames: every frame a non-empty list of non-empty fields.
IsFrameList(frames) ==
    \A i \in 1..Len(frames) :
        /\ frames[i] # <<>>
        /\ \A j \in 1..Len(frames[i]) : frames[i][j] # <<>>

C30_ChunkingIndependence ==
    /\ Len(event_queue) <= 1
    /\ \A i \in 1..Len(event_queue) :
           event_queue[i].measurements =
               parse_tab_frame(sensors[ReaderPort], OxygenFrame, now).measurements
    /\ (Consumed = Len(ChunkStream) /\ reader[ReaderPort].pc = "test") =>
           Len(event_queue) = 1

\* C31: the consumer's enrichment of a drained event never changes a
\* handle's last measurement set: a drain pass leaves last_measurement of
\* every handle as the decoder wrote it.
C31_LastMeasurementDecoderOnly ==
    [][drains' # drains =>
           \A h \in DOMAIN sensors :
               sensors'[h].last_measurement = sensors[h].last_measurement]_vars

\* The names the overlay may add.
NamedFields ==
    {"O2Concentration", "O2Saturation", "Temperature", "Pressure", "Conductivity",
     "Salinity"}

\* The overlay as the specification gives it, for a handle of type t and the
\* values v of a frame.
ExpectedOverlay(t, v) ==
    IF t = "oxygen" /\ Len(v) >= 3
    THEN [k \in {"O2Concentration", "O2Saturation", "Temperature"} |->
             IF k = "O2Concentration" THEN v[1]
             ELSE IF k = "O2Saturation" THEN v[2] ELSE v[3]]
    ELSE IF t = "pressure" /\ Len(v) >= 2
    THEN [k \in {"Pressure", "Temperature"} |-> IF k = "Pressure" THEN v[1] ELSE v[2]]
    ELSE IF t = "conductivity" /\ Len(v) = 2
    THEN [k \in {"Conductivity", "Temperature"} |->
             IF k = "Conductivity" THEN v[1] ELSE v[2]]
    ELSE IF t = "conductivity" /\ Len(v) >= 3
    THEN [k \in {"Conductivity", "Salinity", "Temperature"} |->
             IF k = "Conductivity" THEN v[1]
             ELSE IF k = "Salinity" THEN v[2] ELSE v[3]]
    ELSE EmptyDict

\* The named fields of a mapping.
NamedPart(m) == [k \in DOMAIN m \cap NamedFields |-> m[k]]

\* C32: the named fields of a decoded frame are those of the overlay table
\* for the handle's type and the number of values: oxygen with three values
\* or more, pressure with two or more, conductivity with exactly two and
\* with three or more, and none for any other type or fewer values.
C32_TypeOverlay ==
    (parsed_frame # <<>> /\ Len(parsed_frame) >= 2) =>
        NamedPart(decoded) =
            ExpectedOverlay(sensors[ConnectPort].sensor_type,
                            SubSeq(parsed_frame, 3, Len(parsed_frame)))

\* C32 witness: a conductivity frame of three values decoded after a frame
\* of an unknown product.
C32_Witness ==
    /\ dpc = 2
    /\ sensors[ConnectPort].sensor_type = "conductivity"
    /\ Len(parsed_frame) = 5
    /\ DictGet(decoded, "Salinity") = <<Txt98_2>>
    /\ DictGet(decoded, "Temperature") = <<Txt18_3>>

\* C33: parse_tab_frame on a frame of fewer than two fields returns the
\* empty mapping and leaves the handle (product, serial, type, name, protocol
\* mode, last measurement and its time) as it was; no event is queued.
C33_ShortFrameNoEffect ==
    [][(dpc' # dpc /\ Len(parsed_frame') < 2) =>
           /\ decoded' = EmptyDict
           /\ sensors' = sensors
           /\ event_queue' = event_queue]_vars

\* C33 witness: a one-field frame has been parsed by a handle that holds the
\* measurements of an earlier oxygen frame.
C33_Witness ==
    /\ dpc = 2
    /\ parsed_frame = OneFieldFrame
    /\ decoded = EmptyDict
    /\ sensors[ConnectPort].product_number = <<Txt4330>>
    /\ DictGet(sensors[ConnectPort].last_measurement, "O2Concentration") = <<Txt210_5>>

(***************************************************************************)
(* C34: what connect() writes                                              *)
(***************************************************************************)
\* The data of the writes a step added to the channel of the port.
ConnectWritten ==
    [i \in 1..(Len(written'[ConnectPort]) - Len(written[ConnectPort])) |->
        written'[ConnectPort][Len(written[ConnectPort]) + i].data]

ChannelStates == [h \in DOMAIN sensors |-> sensors[h].serial_port]

\* C35: no step of a reader thread (its entry test, the loop test, a read, the
\* rest of an iteration, the exception handler, its return) changes the
\* open/closed state of any channel: the loop neither closes nor reopens it.
C35_ReaderLeavesChannel ==
    [][(\E th \in DOMAIN reader : reader'[th] # reader[th]) =>
           ChannelStates' = ChannelStates]_vars

\* A reader thread has read from its channel, has returned on the stop
\* signal, and the channel is still open.
C35_Witness ==
    \E th \in DOMAIN reader :
        /\ reader[th].pc = "done"
        /\ sensors[HandleOf(th)].serial_port = "open"
        /\ wire[ChannelOf(th)] # <<>>
        /\ stop_event

(***************************************************************************)
(* C36: who writes the latest salinity                                     *)
(***************************************************************************)
\* The context the iteration of the i-th processed event left: what the next
\* iteration found, or the present context after the last one (no handler
\* between two passes assigns the latest salinity).
ContextAfter(i) == IF i < Len(delivered) THEN delivered[i + 1].found ELSE GuiContext

\* No salinity can be determined for the i-th processed event.
NoSalinityFor(i) ==
    /\ FieldValue(i, "Salinity") = <<>>
    /\ \/ FieldValue(i, "Conductivity") = <<>>
       \/ FieldValue(i, "Temperature") = <<>>
       \/ ComputedSalinity(i) = <<>>

\* C36: an event that did not go through the conductivity branch, and a
\* conductivity event for which no salinity can be determined, leave the
\* latest salinity and its timestamp as the iteration found them.
C36_SalinityWrittenOnSuccess ==
    \A i \in 1..Len(delivered) :
        (~ConductivityEvent(i) \/ NoSalinityFor(i)) =>
            /\ ContextAfter(i).latest_salinity_psu = delivered[i].found.latest_salinity_psu
            /\ ContextAfter(i).latest_salinity_at = delivered[i].found.latest_salinity_at

\* With the salinity 28.608 established by one conductivity event, a
\* conductivity event whose conductivity the PSS-78 function rejects was
\* processed: the latest salinity is still 28.608.
C36_Witness ==
    /\ latest_salinity_psu = <<28608>>
    /\ latest_salinity_at # <<>>
    /\ Len(delivered) = 2
    /\ delivered[2].found.latest_salinity_psu = <<28608>>
    /\ ConductivityEvent(2) /\ NoSalinityFor(2)
    /\ FieldValue(2, "Conductivity") # <<>>
    /\ FieldValue(2, "Temperature") # <<>>

(***************************************************************************)
(* C37: the handle after connect() returned False                          *)
(***************************************************************************)
\* C37: whenever connect() returns False the handle is not marked connected
\* and its channel is not left open, on every failure path, the one of an
\* exception raised after the port was opened included.
C37_FalseMeansClosed ==
    \A i \in 1..Len(connect_log) :
        ~connect_log[i].ok =>
            /\ ~connect_log[i].after.is_connected
            /\ connect_log[i].after.serial_port # "open"

(***************************************************************************)
(* C38: events across stop/start cycles                                    *)
(***************************************************************************)
\* The events of the queue the drain pass reads are all still in it, in
\* their places, after the step.
QueueKept ==
    /\ Len(event_queue') >= Len(event_queue)
    /\ SubSeq(event_queue', 1, Len(event_queue)) = event_queue

\* C38: no emitted event is lost across stop/start cycles: an event a reader
\* has put on the queue stays there until a drain pass takes it, so that
\* every step that is not a drain pass keeps the queued events (an event
\* that leaves the queue otherwise can never be taken by a pass).
C38_NoEventLost ==
    [][drains' = drains => QueueKept]_vars

====
